---------------------------- MODULE Spec2Model ----------------------------
(*************************************************************************)
(* Model of the health-insight engine of doc-chat                        *)
(* (frontend/src/lib/healthInsights.ts): the normalizer of onboarding    *)
(* records, the BMI computation and the rule-based risk scorer.          *)
(*                                                                       *)
(* JavaScript values are tagged records [t, v].  A JavaScript string is  *)
(* a sequence of one-character strings, so that trimming, parsing,       *)
(* formatting, lower-casing and substring search are computed and not    *)
(* assumed.  A finite JavaScript number is a decimal m * 10^e with m not *)
(* divisible by 10 (0 is m = 0, e = 0); -0 is identified with 0, as ===  *)
(* does.  Mantissas stay below 10^9.                                     *)
(*************************************************************************)
EXTENDS Integers, Sequences, FiniteSets, TLC

VARIABLES
    pc,          \* position of the driver of the function under study
    raw,         \* normalizeOnboardingData: the argument
    snapshot,    \* normalizeOnboardingData(raw)
    again,       \* normalizeOnboardingData(snapshot)
    heightCm,    \* computeBMI: first argument
    weightKg,    \* computeBMI: second argument
    bmi,         \* computeBMI(heightCm, weightKg)
    data,        \* the snapshot given to summarizeStatus, buildInsights
                 \* and buildRecommendations
    status,      \* summarizeStatus(data)
    insights,    \* buildInsights(data)
    offers,      \* the entries handed to add() so far, in order
    recs,        \* buildRecommendations: the list add() fills, then the result
    currentStep,             \* HealthQuestionnaire: index of the step shown
    formData,                \* HealthQuestionnaire: the collected data
    error,                   \* HealthQuestionnaire: the message shown, or null
    isGeneratingSummary,     \* HealthQuestionnaire: a voice summary is awaited
    hasVoiceInputRef,        \* HealthQuestionnaire: hasVoiceInputRef.current
    voiceGenerateSummaryRef, \* HealthQuestionnaire: a generator is registered
    pending,                 \* handleSubmit runs suspended at an await
    onSubmitCall,            \* the call of onSubmit the last step made, if any
    kwText,      \* hasKeyword: first argument (text)
    kwList,      \* hasKeyword: second argument (keywords)
    kwMatched,   \* hasKeyword(kwText, kwList)
    recorders,        \* StepSymptoms: MediaRecorders started and not stopped
    isProcessingRef,  \* StepSymptoms: isProcessingRef.current
    isProcessing,     \* StepSymptoms: the state isProcessing
    isPlayingRef,     \* StepSymptoms: isPlayingRef.current
    isSpeaking,       \* StepSymptoms: the state isSpeaking
    audioRef,         \* StepSymptoms: audioRef.current, 0 for null
    speaks,           \* what each Audio of speakText is doing
    utterance,        \* what the utterance of speakWithWebSpeech is doing
    onvoiceschanged,  \* speechSynthesis.onvoiceschanged is set
    voices,           \* speechSynthesis.getVoices() is not empty
    pipelines,        \* stages of the processVoiceAudio runs in progress
    processCall,      \* how the call of processVoiceAudio of the last step went
    voiceSummary,     \* StepSymptoms: the state voiceSummary is set
    messages,          \* ChatPanel: the state messages
    sessions,          \* ChatPanel: the state sessions (their ids)
    currentSessionId,  \* ChatPanel: the state currentSessionId, 0 for null
    inputValue,        \* ChatPanel: the state inputValue
    loading,           \* ChatPanel: the state loading
    sends,             \* sendMessage runs suspended at an await
    loads,             \* loadSession requests in flight (their session ids)
    fetching,          \* a fetchSessions request is in flight
    now,               \* Date.now(), counted in calls of sendMessage
    stored             \* the server: per session, the exchanges it stored

\* The state of the questionnaire component.
form ==
    <<currentStep, formData, error, isGeneratingSummary, hasVoiceInputRef,
      voiceGenerateSummaryRef, pending, onSubmitCall>>

\* The arguments and results of the functions of the insight engine.
engine ==
    <<raw, snapshot, again, heightCm, weightKg, bmi, data, status, insights, offers,
      recs>>

\* The arguments and the result of hasKeyword.
matcher == <<kwText, kwList, kwMatched>>

\* The voice input of the symptoms step.
voice ==
    <<recorders, isProcessingRef, isProcessing, isPlayingRef, isSpeaking, audioRef,
      speaks, utterance, onvoiceschanged, voices, pipelines, processCall,
      voiceSummary>>

\* The chat panel and its server.
chat ==
    <<messages, sessions, currentSessionId, inputValue, loading, sends, loads,
      fetching, now, stored>>

\* The state studied apart from the insight engine and the questionnaire.
others == <<matcher, voice, chat>>

vars == <<pc, engine, form, others>>

-----------------------------------------------------------------------------
(* Bounds of the enumerated inputs.                                        *)

\* Longest text drawn over Alphabet for a raw field.
MaxLen == 3

\* Most entries handed to add() before the list is returned.
MaxOffers == 5

\* Most handleSubmit runs suspended at an await at one time.
MaxPending == 1

-----------------------------------------------------------------------------
(* JavaScript numbers.                                                     *)

NaN == [k |-> "nan", m |-> 0, e |-> 0]
PosInf == [k |-> "inf", m |-> 1, e |-> 0]
NegInf == [k |-> "inf", m |-> -1, e |-> 0]
Zero == [k |-> "fin", m |-> 0, e |-> 0]

RECURSIVE Pow10(_)
Pow10(n) == IF n <= 0 THEN 1 ELSE 10 * Pow10(n - 1)

Abs(x) == IF x < 0 THEN -x ELSE x

\* Number of decimal digits of a natural number (1 for 0).
RECURSIVE NumDigits(_)
NumDigits(n) == IF n < 10 THEN 1 ELSE 1 + NumDigits(n \div 10)

\* The finite number m * 10^e in normal form.
RECURSIVE Fin(_, _)
Fin(m, e) ==
    IF m = 0 THEN Zero
    ELSE IF m % 10 = 0 THEN Fin(m \div 10, e + 1)
    ELSE [k |-> "fin", m |-> m, e |-> e]

Int2Num(i) == Fin(i, 0)

\* Number.isFinite on a value already known to be a number.
IsFiniteNum(n) == n.k = "fin"

\* Position of the decimal point after the first digit string: the value is
\* 0.d1d2...dk * 10^Magnitude.
Magnitude(n) == NumDigits(Abs(n.m)) + n.e

Sign(n) == IF n.m > 0 THEN 1 ELSE IF n.m < 0 THEN -1 ELSE 0

\* a < b for two positive finite numbers.
PosLess(a, b) ==
    IF Magnitude(a) # Magnitude(b) THEN Magnitude(a) < Magnitude(b)
    ELSE LET lo == IF a.e < b.e THEN a.e ELSE b.e
         IN  a.m * Pow10(a.e - lo) < b.m * Pow10(b.e - lo)

Neg(n) == [n EXCEPT !.m = -n.m]

\* The < of JavaScript on two numbers (false when either is NaN).
NumLess(a, b) ==
    IF a.k = "nan" \/ b.k = "nan" THEN FALSE
    ELSE IF a = b THEN FALSE
    ELSE IF a.k = "inf" THEN a.m < 0
    ELSE IF b.k = "inf" THEN b.m > 0
    ELSE IF Sign(a) # Sign(b) THEN Sign(a) < Sign(b)
    ELSE IF Sign(a) > 0 THEN PosLess(a, b)
    ELSE PosLess(Neg(b), Neg(a))

\* a <= b, a > b, a >= b of JavaScript.
NumLeq(a, b) == a.k # "nan" /\ b.k # "nan" /\ (a = b \/ NumLess(a, b))
NumGreater(a, b) == NumLess(b, a)
NumGeq(a, b) == NumLeq(b, a)

-----------------------------------------------------------------------------
(* JavaScript values.                                                      *)

Undefined == [t |-> "undefined", v |-> 0]
Null == [t |-> "null", v |-> 0]
Bool(b) == [t |-> "boolean", v |-> b]
Object == [t |-> "object", v |-> 0]
Array == [t |-> "array", v |-> 0]
Num(n) == [t |-> "number", v |-> n]
Str(s) == [t |-> "string", v |-> s]

\* ToBoolean: what `!x` and `if (x)` test.
Truthy(x) ==
    CASE x.t = "undefined" -> FALSE
      [] x.t = "null" -> FALSE
      [] x.t = "boolean" -> x.v
      [] x.t = "number" -> x.v.k # "nan" /\ x.v # Zero
      [] x.t = "string" -> x.v # <<>>
      [] OTHER -> TRUE

-----------------------------------------------------------------------------
(* Strings: String.prototype.trim, Number(string), String(number).         *)

WhiteSpace == {" ", "\t", "\n", "\r", "\f"}

DigitChars == <<"0", "1", "2", "3", "4", "5", "6", "7", "8", "9">>
HexLower == <<"a", "b", "c", "d", "e", "f">>
HexUpper == <<"A", "B", "C", "D", "E", "F">>

InSeq(c, s) == \E i \in 1..Len(s) : s[i] = c
IndexOf(c, s) == CHOOSE i \in 1..Len(s) : s[i] = c

IsDigit(c) == InSeq(c, DigitChars)
DigitVal(c) == IndexOf(c, DigitChars) - 1
AllDigits(s) == \A i \in 1..Len(s) : IsDigit(s[i])

IsRadixDigit(c, radix) ==
    \/ IsDigit(c) /\ DigitVal(c) < radix
    \/ radix = 16 /\ (InSeq(c, HexLower) \/ InSeq(c, HexUpper))
RadixVal(c) ==
    IF IsDigit(c) THEN DigitVal(c)
    ELSE IF InSeq(c, HexLower) THEN 9 + IndexOf(c, HexLower)
    ELSE 9 + IndexOf(c, HexUpper)

RECURSIVE TrimStart(_)
TrimStart(s) ==
    IF s # <<>> /\ Head(s) \in WhiteSpace THEN TrimStart(Tail(s)) ELSE s

RECURSIVE TrimEnd(_)
TrimEnd(s) ==
    IF s # <<>> /\ s[Len(s)] \in WhiteSpace
    THEN TrimEnd(SubSeq(s, 1, Len(s) - 1)) ELSE s

\* String.prototype.trim
Trim(s) == TrimEnd(TrimStart(s))

\* The value of a digit string in the given radix.
RECURSIVE RadixToNat(_, _)
RadixToNat(s, radix) ==
    IF s = <<>> THEN 0
    ELSE RadixToNat(SubSeq(s, 1, Len(s) - 1), radix) * radix + RadixVal(s[Len(s)])

\* A digit string without its leading zeros.
RECURSIVE StripZeros(_)
StripZeros(s) ==
    IF s # <<>> /\ Head(s) = "0" THEN StripZeros(Tail(s)) ELSE s

\* The double nearest to mag * 10^e, mag >= 0 of at most nine digits.  The
\* largest finite double is 1.7976931348623157e308 (179769313 cut to nine
\* digits, magnitude 309): above it the result is Infinity; below 10^-324
\* every decimal rounds to 0.
RoundToDouble(neg, mag, e) ==
    LET n == Fin(mag, e)
        top == n.m * Pow10(9 - NumDigits(n.m))
    IN  IF mag = 0 THEN Zero
        ELSE IF \/ Magnitude(n) > 309
                \/ Magnitude(n) = 309 /\ top > 179769313
             THEN (IF neg THEN NegInf ELSE PosInf)
        ELSE IF Magnitude(n) < -323 THEN Zero
        ELSE IF neg THEN Neg(n) ELSE n

\* First position of e or E in s, 0 when there is none.
ExpMark(s) ==
    IF \E i \in 1..Len(s) : s[i] \in {"e", "E"}
    THEN CHOOSE i \in 1..Len(s) :
            s[i] \in {"e", "E"} /\ \A j \in 1..(i - 1) : s[j] \notin {"e", "E"}
    ELSE 0

DotMark(s) ==
    IF InSeq(".", s)
    THEN CHOOSE i \in 1..Len(s) : s[i] = "." /\ \A j \in 1..(i - 1) : s[j] # "."
    ELSE 0

HasSign(s) == s # <<>> /\ Head(s) \in {"+", "-"}
Unsigned(s) == IF HasSign(s) THEN Tail(s) ELSE s
IsNegative(s) == s # <<>> /\ Head(s) = "-"

InfinityText == <<"I", "n", "f", "i", "n", "i", "t", "y">>

\* StrUnsignedDecimalLiteral without the exponent: digits, digits. ,
\* digits.digits or .digits
IsMantissa(s) ==
    LET d == DotMark(s)
        ip == IF d = 0 THEN s ELSE SubSeq(s, 1, d - 1)
        fp == IF d = 0 THEN <<>> ELSE SubSeq(s, d + 1, Len(s))
    IN  AllDigits(ip) /\ AllDigits(fp) /\ Len(ip) + Len(fp) >= 1

\* The exponent part after the e: an optional sign and at least one digit.
IsExponent(s) == Unsigned(s) # <<>> /\ AllDigits(Unsigned(s))

\* StrDecimalLiteral, sign included, Infinity excluded.
IsDecimalLiteral(s) ==
    LET u == Unsigned(s)
        x == ExpMark(u)
    IN  IF x = 0 THEN IsMantissa(u)
        ELSE IsMantissa(SubSeq(u, 1, x - 1)) /\ IsExponent(SubSeq(u, x + 1, Len(u)))

DecimalValue(s) ==
    LET u == Unsigned(s)
        x == ExpMark(u)
        mant == IF x = 0 THEN u ELSE SubSeq(u, 1, x - 1)
        expo == IF x = 0 THEN <<>> ELSE SubSeq(u, x + 1, Len(u))
        d == DotMark(mant)
        ip == IF d = 0 THEN mant ELSE SubSeq(mant, 1, d - 1)
        fp == IF d = 0 THEN <<>> ELSE SubSeq(mant, d + 1, Len(mant))
        ev == IF expo = <<>> THEN 0
              ELSE (IF IsNegative(expo) THEN -1 ELSE 1)
                   * RadixToNat(StripZeros(Unsigned(expo)), 10)
    IN  RoundToDouble(IsNegative(s), RadixToNat(StripZeros(ip \o fp), 10),
                      ev - Len(fp))

\* NonDecimalIntegerLiteral: 0x, 0o or 0b and digits of that radix; 0 when s
\* is none.
RadixOf(s) ==
    IF Len(s) < 3 \/ s[1] # "0" THEN 0
    ELSE LET r == CASE s[2] \in {"x", "X"} -> 16
                    [] s[2] \in {"o", "O"} -> 8
                    [] s[2] \in {"b", "B"} -> 2
                    [] OTHER -> 0
         IN  IF r # 0 /\ \A i \in 3..Len(s) : IsRadixDigit(s[i], r) THEN r ELSE 0

\* Number(s): StringToNumber of ECMA-262 on the text s.
StringToNumber(s) ==
    LET t == Trim(s)
    IN  IF t = <<>> THEN Zero
        ELSE IF Unsigned(t) = InfinityText
             THEN (IF IsNegative(t) THEN NegInf ELSE PosInf)
        ELSE IF RadixOf(t) # 0
             THEN Int2Num(RadixToNat(SubSeq(t, 3, Len(t)), RadixOf(t)))
        ELSE IF IsDecimalLiteral(t) THEN DecimalValue(t)
        ELSE NaN

\* The decimal digits of a natural number.
RECURSIVE NatToDigits(_)
NatToDigits(n) ==
    IF n < 10 THEN <<DigitChars[n + 1]>>
    ELSE NatToDigits(n \div 10) \o <<DigitChars[(n % 10) + 1]>>

Zeros(n) == [i \in 1..n |-> "0"]

\* Number::toString(x) of ECMA-262 for a finite number: plain decimal
\* notation from 1e-6 up to 1e21, exponent notation outside.
NumberToString(x) ==
    LET ds == NatToDigits(Abs(x.m))
        k == Len(ds)
        n == k + x.e
        sgn == IF x.m < 0 THEN <<"-">> ELSE <<>>
        ex == NatToDigits(Abs(n - 1))
        exs == IF n - 1 < 0 THEN <<"-">> ELSE <<"+">>
    IN  IF x.m = 0 THEN <<"0">>
        ELSE IF k <= n /\ n <= 21 THEN sgn \o ds \o Zeros(n - k)
        ELSE IF 0 < n /\ n <= 21
             THEN sgn \o SubSeq(ds, 1, n) \o <<".">> \o SubSeq(ds, n + 1, k)
        ELSE IF -6 < n /\ n <= 0 THEN sgn \o <<"0", ".">> \o Zeros(-n) \o ds
        ELSE IF k = 1 THEN sgn \o ds \o <<"e">> \o exs \o ex
        ELSE sgn \o <<ds[1], ".">> \o SubSeq(ds, 2, k) \o <<"e">> \o exs \o ex

-----------------------------------------------------------------------------
(* The normalizer: stringVal, numberVal, normalizeOnboardingData.          *)

StringFields ==
    {"full_name", "sex", "blood_type", "allergies", "conditions", "medications",
     "medical_history", "past_reports", "prescriptions", "symptoms_current",
     "symptoms_past", "location", "smoking_status", "alcohol_consumption",
     "exercise_frequency", "diet_type", "stress_level", "family_history",
     "health_goals", "emergency_contact_name", "emergency_contact_phone",
     "blood_pressure"}

NumberFields ==
    {"age", "height", "weight", "sleep_hours", "heart_rate", "temperature_c",
     "spo2"}

DeclaredFields == StringFields \cup NumberFields

\* A raw record as a JavaScript object: the function of its own keys.
Record(f) == [t |-> "record", v |-> f]
EmptyRecord == [key \in {} |-> Undefined]

\* data.key: undefined for a key the object does not have.
Get(obj, key) == IF key \in DOMAIN obj THEN obj[key] ELSE Undefined

\* Mutant of Coalesce: only undefined is replaced, as a default parameter does.
Coalesce_UndefinedOnly(a, b) == IF a.t = "undefined" THEN b ELSE a

\* a ?? b
Coalesce(a, b) == IF a.t \in {"null", "undefined"} THEN b ELSE a

\* `x || undefined` for a string x.
OrUndefined(s) == IF s # <<>> THEN Str(s) ELSE Undefined

\* Mutant of stringVal: the text is not trimmed (`value || undefined`).
stringVal_NoTrim(value) ==
    IF value.t = "string" THEN OrUndefined(value.v)
    ELSE IF value.t = "number" /\ IsFiniteNum(value.v)
         THEN Str(NumberToString(value.v))
    ELSE Undefined

stringVal(value) ==
    IF value.t = "string" THEN OrUndefined(Trim(value.v))
    ELSE IF value.t = "number" /\ IsFiniteNum(value.v)
         THEN Str(NumberToString(value.v))
    ELSE Undefined

\* Mutant of numberVal: texts are not parsed.
numberVal_NumbersOnly(value) ==
    IF value.t = "number" /\ IsFiniteNum(value.v) THEN value ELSE Undefined

\* Mutant of numberVal: a number passes without the Number.isFinite test.
numberVal_NoFiniteCheck(value) ==
    IF value.t = "number" THEN value
    ELSE IF value.t = "string" /\ IsFiniteNum(StringToNumber(Trim(value.v)))
         THEN Num(StringToNumber(Trim(value.v)))
    ELSE Undefined

numberVal(value) ==
    IF value.t = "number" /\ IsFiniteNum(value.v) THEN value
    ELSE IF value.t = "string" /\ IsFiniteNum(StringToNumber(Trim(value.v)))
         THEN Num(StringToNumber(Trim(value.v)))
    ELSE Undefined

\* Mutant of SnapshotOf: height and weight are read from each other's key.
SnapshotOf_Swapped(d) ==
    [f \in DeclaredFields |->
        IF f = "full_name" THEN Coalesce(stringVal(Get(d, f)), Str(<<>>))
        ELSE IF f = "height" THEN numberVal(Get(d, "weight"))
        ELSE IF f = "weight" THEN numberVal(Get(d, "height"))
        ELSE IF f \in NumberFields THEN numberVal(Get(d, f))
        ELSE stringVal(Get(d, f))]

\* The object literal of the return statement, d being `data`.
SnapshotOf(d) ==
    [full_name |-> Coalesce(stringVal(Get(d, "full_name")), Str(<<>>)),
     age |-> numberVal(Get(d, "age")),
     sex |-> stringVal(Get(d, "sex")),
     height |-> numberVal(Get(d, "height")),
     weight |-> numberVal(Get(d, "weight")),
     blood_type |-> stringVal(Get(d, "blood_type")),
     allergies |-> stringVal(Get(d, "allergies")),
     conditions |-> stringVal(Get(d, "conditions")),
     medications |-> stringVal(Get(d, "medications")),
     medical_history |-> stringVal(Get(d, "medical_history")),
     past_reports |-> stringVal(Get(d, "past_reports")),
     prescriptions |-> stringVal(Get(d, "prescriptions")),
     symptoms_current |-> stringVal(Get(d, "symptoms_current")),
     symptoms_past |-> stringVal(Get(d, "symptoms_past")),
     location |-> stringVal(Get(d, "location")),
     smoking_status |-> stringVal(Get(d, "smoking_status")),
     alcohol_consumption |-> stringVal(Get(d, "alcohol_consumption")),
     exercise_frequency |-> stringVal(Get(d, "exercise_frequency")),
     diet_type |-> stringVal(Get(d, "diet_type")),
     sleep_hours |-> numberVal(Get(d, "sleep_hours")),
     stress_level |-> stringVal(Get(d, "stress_level")),
     family_history |-> stringVal(Get(d, "family_history")),
     health_goals |-> stringVal(Get(d, "health_goals")),
     emergency_contact_name |-> stringVal(Get(d, "emergency_contact_name")),
     emergency_contact_phone |-> stringVal(Get(d, "emergency_contact_phone")),
     blood_pressure |-> stringVal(Get(d, "blood_pressure")),
     heart_rate |-> numberVal(Get(d, "heart_rate")),
     temperature_c |-> numberVal(Get(d, "temperature_c")),
     spo2 |-> numberVal(Get(d, "spo2"))]

\* What reading a property of null or undefined does: it throws.
TypeError == [t |-> "TypeError", v |-> 0]

\* Mutant of normalizeOnboardingData: the record is spread into the result
\* (`{ ...data, full_name: ..., ... }`).
normalize_Spread(r) ==
    LET d == Coalesce(r, Record(EmptyRecord))
    IN  IF d.t \in {"null", "undefined"} THEN TypeError
        ELSE [x \in DOMAIN d.v \cup DOMAIN SnapshotOf(d.v) |->
                IF x \in DOMAIN SnapshotOf(d.v) THEN SnapshotOf(d.v)[x]
                ELSE d.v[x]]

normalizeOnboardingData(r) ==
    LET d == Coalesce(r, Record(EmptyRecord))
    IN  IF d.t \in {"null", "undefined"} THEN TypeError ELSE SnapshotOf(d.v)


-----------------------------------------------------------------------------
(* Inputs of the normalizer.                                               *)

\* Characters of the enumerated texts: white space, digits, the decimal
\* point, a sign, and a letter (which is also the exponent mark).
Alphabet == {" ", "0", "5", ".", "-", "e"}

Texts == UNION {[1..n -> Alphabet] : n \in 0..MaxLen}

\* Texts outside the alphabet: other white space, a plus sign, Infinity,
\* a hexadecimal literal, an exponent beyond the doubles, the test's values.
ProbeTexts ==
    {<<"\t", "5", "\n">>, <<"+", "5">>, InfinityText, <<"-">> \o InfinityText,
     <<"0", "x", "1", "f">>, <<"1", "e", "4", "0", "0">>,
     <<" ", "J", "a", "n", "e", " ">>, <<"3", "8", ".", "2">>,
     <<"c", "h", "e", "s", "t", " ", "p", "a", "i", "n">>}

RawNumbers ==
    {Zero, Fin(5, 0), Fin(-5, 0), Fin(5, -1), Fin(382, -1), Fin(170, 0),
     Fin(1, 21), Fin(15, -8), NaN, PosInf, NegInf}

\* Every kind of value a key of a raw record may hold.
RawValues ==
    {Undefined, Null, Bool(TRUE), Bool(FALSE), Object, Array}
        \cup {Num(n) : n \in RawNumbers}
        \cup {Str(s) : s \in Texts \cup ProbeTexts}

\* The record of the test "normalizes onboarding data".
TestRecord ==
    [full_name |-> Str(<<" ", "J", "a", "n", "e", " ">>),
     age |-> Str(<<"3", "0">>),
     height |-> Str(<<"1", "7", "0">>),
     symptoms_current |-> Str(<<"c", "o", "u", "g", "h">>),
     location |-> Str(<<"M", "u", "m", "b", "a", "i">>),
     heart_rate |-> Str(<<"1", "1", "0">>),
     temperature_c |-> Str(<<"3", "8", ".", "2">>),
     unknown |-> Str(<<"x">>)]

UnknownKeys == {"unknown"}

\* obj with key set to value (an own key from then on).
With(obj, key, value) ==
    [x \in DOMAIN obj \cup {key} |-> IF x = key THEN value ELSE obj[x]]

\* The raw values that are no enumerated text.
KindValues == RawValues \ {Str(s) : s \in Texts}

\* The arguments of normalizeOnboardingData: null, undefined, the empty
\* record and the test's record, the empty record with one key, declared or
\* not, set to any raw value, and the test's record with one key set to a
\* value of every kind.
RawInputs ==
    {Null, Undefined, Record(EmptyRecord), Record(TestRecord)}
        \cup {Record(With(EmptyRecord, key, value)) :
                key \in DeclaredFields \cup UnknownKeys, value \in RawValues}
        \cup {Record(With(TestRecord, key, value)) :
                key \in DeclaredFields \cup UnknownKeys, value \in KindValues}

-----------------------------------------------------------------------------
(* Driver of the normalizer.                                               *)

None == [t |-> "none", v |-> 0]

\* No questionnaire is mounted.
NoForm ==
    /\ currentStep = None /\ formData = None /\ error = None
    /\ isGeneratingSummary = None /\ hasVoiceInputRef = None
    /\ voiceGenerateSummaryRef = None /\ pending = None /\ onSubmitCall = None

\* hasKeyword is not under study.
NoMatcher == kwText = None /\ kwList = None /\ kwMatched = None

\* No voice input is mounted.
NoVoice ==
    /\ recorders = None /\ isProcessingRef = None /\ isProcessing = None
    /\ isPlayingRef = None /\ isSpeaking = None /\ audioRef = None
    /\ speaks = None /\ utterance = None /\ onvoiceschanged = None
    /\ voices = None /\ pipelines = None /\ processCall = None
    /\ voiceSummary = None

\* No chat panel is mounted.
NoChat ==
    /\ messages = None /\ sessions = None /\ currentSessionId = None
    /\ inputValue = None /\ loading = None /\ sends = None /\ loads = None
    /\ fetching = None /\ now = None /\ stored = None

\* Nothing else is under study.
NoOthers == NoMatcher /\ NoVoice /\ NoChat

\* No function of the insight engine is under study.
NoEngine ==
    /\ raw = None /\ snapshot = None /\ again = None
    /\ heightCm = None /\ weightKg = None /\ bmi = None
    /\ data = None /\ status = None /\ insights = None
    /\ offers = None /\ recs = None

InitNormalize ==
    /\ pc = "raw"
    /\ raw \in RawInputs
    /\ snapshot = None
    /\ again = None
    /\ heightCm = None /\ weightKg = None /\ bmi = None
    /\ data = None /\ status = None
    /\ insights = None /\ offers = None /\ recs = None
    /\ NoForm
    /\ NoOthers

\* const snapshot = normalizeOnboardingData(raw)
Normalize ==
    /\ pc = "raw"
    /\ snapshot' = normalizeOnboardingData(raw)
    /\ pc' = "normalized"
    /\ UNCHANGED <<raw, again, heightCm, weightKg, bmi, data, status, insights, offers, recs, form, others>>

\* normalizeOnboardingData applied to its own result.
Renormalize ==
    /\ pc = "normalized"
    /\ again' = normalizeOnboardingData(Record(snapshot))
    /\ pc' = "renormalized"
    /\ UNCHANGED <<raw, snapshot, heightCm, weightKg, bmi, data, status, insights, offers, recs, form, others>>

NextNormalize == Normalize \/ Renormalize

SpecNormalize == InitNormalize /\ [][NextNormalize]_vars

-----------------------------------------------------------------------------
(* computeBMI.                                                             *)

\* x / 100 of JavaScript.
Div100(n) == IF n.k = "fin" THEN Fin(n.m, n.e - 2) ELSE n

\* The heights in whole centimetres, below 260, for which the double
\* (h / 100) * (h / 100) lies above the exact square: 1.6 * 1.6 is
\* 2.5600000000000005.  There a quotient that is exactly halfway between two
\* tenths (48 / 2.56 = 18.75) comes out just below it (18.749999999999996),
\* and toFixed(1) gives the lower tenth.  For every other whole height below
\* 260 and whole weight below 400 the double quotient rounds as the exact
\* quotient does, halves upwards.
SquareAboveExact == {40, 56, 80, 104, 112, 136, 160}

HalfwayRoundsDown(h) == h.e >= 0 /\ h.m * Pow10(h.e) \in SquareAboveExact

\* The digits of (w / ((h/100) * (h/100))).toFixed(1) as a number of tenths,
\* for finite h > 0 and w > 0: the nearest tenth, a halfway case upwards
\* unless the double quotient falls below it.
ToFixed1OfQuotient(h, w) ==
    LET k == w.e + 5 - 2 * h.e
        num == w.m * Pow10(k)
        den == h.m * h.m * Pow10(-k)
        up == (2 * num + den) \div (2 * den)
        halfway == (2 * num + den) % (2 * den) = 0
    IN  IF halfway /\ HalfwayRoundsDown(h) THEN up - 1 ELSE up

computeBMI(h, w) ==
    IF ~Truthy(h) \/ ~Truthy(w) THEN Null
    ELSE IF NumLeq(Div100(h.v), Zero) THEN Null
    ELSE IF h.v.k = "inf" THEN (IF w.v.k = "inf" THEN Null ELSE Num(Zero))
    ELSE IF w.v.k = "inf" THEN Null
    ELSE Num(Fin(Sign(w.v) * ToFixed1OfQuotient(h.v, [w.v EXCEPT !.m = Abs(w.v.m)]), -1))

-----------------------------------------------------------------------------
(* Driver of computeBMI.                                                   *)

Heights ==
    {Undefined} \cup
    {Num(n) : n \in {Int2Num(i) : i \in {0, -170, 120, 150, 160, 170, 175, 180, 200}}
                    \cup {NaN, PosInf, NegInf}}

Weights ==
    {Undefined} \cup
    {Num(n) : n \in {Int2Num(i) : i \in {0, -81, 1, 45, 48, 60, 64, 80, 81, 95, 120}}
                    \cup {NaN, PosInf}}

InitBMI ==
    /\ pc = "args"
    /\ heightCm \in Heights
    /\ weightKg \in Weights
    /\ bmi = None
    /\ raw = None /\ snapshot = None /\ again = None
    /\ data = None /\ status = None
    /\ insights = None /\ offers = None /\ recs = None
    /\ NoForm
    /\ NoOthers

\* const bmi = computeBMI(heightCm, weightKg)
ComputeBMI ==
    /\ pc = "args"
    /\ bmi' = computeBMI(heightCm, weightKg)
    /\ pc' = "computed"
    /\ UNCHANGED <<raw, snapshot, again, heightCm, weightKg, data, status, insights, offers, recs, form, others>>

NextBMI == ComputeBMI

SpecBMI == InitBMI /\ [][NextBMI]_vars

-----------------------------------------------------------------------------
(* hasKeyword and summarizeStatus.                                         *)

UpperLetters ==
    <<"A", "B", "C", "D", "E", "F", "G", "H", "I", "J", "K", "L", "M",
      "N", "O", "P", "Q", "R", "S", "T", "U", "V", "W", "X", "Y", "Z">>
LowerLetters ==
    <<"a", "b", "c", "d", "e", "f", "g", "h", "i", "j", "k", "l", "m",
      "n", "o", "p", "q", "r", "s", "t", "u", "v", "w", "x", "y", "z">>

\* String.prototype.toLowerCase
ToLowerCase(s) ==
    [i \in 1..Len(s) |->
        IF InSeq(s[i], UpperLetters)
        THEN LowerLetters[IndexOf(s[i], UpperLetters)] ELSE s[i]]

\* String.prototype.includes
Includes(s, k) ==
    \E i \in 0..(Len(s) - Len(k)) : SubSeq(s, i + 1, i + Len(k)) = k

\* Mutant of hasKeyword: the text is searched as it is, without toLowerCase().
hasKeyword_CaseSensitive(text, keywords) ==
    IF ~Truthy(text) THEN FALSE
    ELSE \E i \in 1..Len(keywords) : Includes(text.v, keywords[i])


hasKeyword(text, keywords) ==
    IF ~Truthy(text) THEN FALSE
    ELSE \E i \in 1..Len(keywords) : Includes(ToLowerCase(text.v), keywords[i])

\* The literals summarizeStatus compares with and searches for.
T_high == <<"h", "i", "g", "h">>
T_very_high == <<"v", "e", "r", "y", "_", "h", "i", "g", "h">>
T_regular == <<"r", "e", "g", "u", "l", "a", "r">>
T_occasional == <<"o", "c", "c", "a", "s", "i", "o", "n", "a", "l">>
T_former == <<"f", "o", "r", "m", "e", "r">>
T_heavy == <<"h", "e", "a", "v", "y">>
T_moderate == <<"m", "o", "d", "e", "r", "a", "t", "e">>
T_heart == <<"h", "e", "a", "r", "t">>
T_cardiac == <<"c", "a", "r", "d", "i", "a", "c">>
T_stroke == <<"s", "t", "r", "o", "k", "e">>
T_diab == <<"d", "i", "a", "b">>
T_hypertension == <<"h", "y", "p", "e", "r", "t", "e", "n", "s", "i", "o", "n">>
T_bp == <<"b", "p">>
T_blood_pressure == <<"b", "l", "o", "o", "d", " ", "p", "r", "e", "s", "s", "u", "r", "e">>

\* score += delta; reasons.push(reason)
Push(acc, delta, reason) ==
    [score |-> acc.score + delta, reasons |-> Append(acc.reasons, reason)]

\* x !== undefined && x < n, x > n, x >= n for a numeric field x.
DefinedLess(x, n) == x # Undefined /\ NumLess(x.v, n)
DefinedGreater(x, n) == x # Undefined /\ NumGreater(x.v, n)
DefinedGeq(x, n) == x # Undefined /\ NumGeq(x.v, n)

CheckBMI(acc, b) ==
    IF Truthy(b)
    THEN IF NumGeq(b.v, Int2Num(30)) THEN Push(acc, 2, "BMI in obese range")
         ELSE IF NumGeq(b.v, Int2Num(25)) THEN Push(acc, 1, "BMI in overweight range")
         ELSE acc
    ELSE acc

\* Mutant of CheckSleep: six hours count as low sleep (`<= 6`).
CheckSleep_AtMost6(acc, d) ==
    IF d.sleep_hours # Undefined /\ NumLeq(d.sleep_hours.v, Int2Num(6))
    THEN Push(acc, 1, "Low sleep (<6h)")
    ELSE acc

CheckSleep(acc, d) ==
    IF DefinedLess(d.sleep_hours, Int2Num(6)) THEN Push(acc, 1, "Low sleep (<6h)")
    ELSE acc

CheckStress(acc, d) ==
    IF d.stress_level = Str(T_high) \/ d.stress_level = Str(T_very_high)
    THEN Push(acc, 1, "Elevated stress")
    ELSE acc

CheckSmoking(acc, d) ==
    IF d.smoking_status = Str(T_regular) THEN Push(acc, 2, "Smoking habit")
    ELSE IF d.smoking_status = Str(T_occasional) \/ d.smoking_status = Str(T_former)
         THEN Push(acc, 1, "Smoking history")
    ELSE acc

CheckAlcohol(acc, d) ==
    IF d.alcohol_consumption = Str(T_heavy) THEN Push(acc, 2, "Heavy alcohol intake")
    ELSE IF d.alcohol_consumption = Str(T_moderate)
         THEN Push(acc, 1, "Moderate alcohol intake")
    ELSE acc

CheckHeartRate(acc, d) ==
    IF DefinedGreater(d.heart_rate, Int2Num(100)) THEN Push(acc, 1, "Elevated heart rate")
    ELSE acc

CheckTemperature(acc, d) ==
    IF DefinedGeq(d.temperature_c, Fin(378, -1))
    THEN Push(acc, 1, "Fever-range temperature")
    ELSE acc

CheckSpo2(acc, d) ==
    IF DefinedLess(d.spo2, Int2Num(94)) THEN Push(acc, 1, "Low oxygen saturation")
    ELSE acc

CheckFamilyHistory(acc, d) ==
    IF hasKeyword(d.family_history, <<T_heart, T_cardiac, T_stroke>>)
    THEN Push(acc, 1, "Cardiovascular family history")
    ELSE acc

CheckConditions(acc, d) ==
    IF hasKeyword(d.conditions, <<T_diab, T_hypertension, T_bp, T_blood_pressure>>)
    THEN Push(acc, 1, "Chronic condition risk")
    ELSE acc

\* Mutant of LevelOf: a score of 4 is not yet 'action' (`score > 4`).
LevelOf_Above4(score) ==
    IF score > 4 THEN "action" ELSE IF score >= 2 THEN "watch" ELSE "good"

LevelOf(score) ==
    IF score >= 4 THEN "action" ELSE IF score >= 2 THEN "watch" ELSE "good"

SummaryOf(level) ==
    IF level = "good" THEN "Stable baseline with no major red flags detected."
    ELSE IF level = "watch"
         THEN "Some risk factors detected. Monitor and address them proactively."
    ELSE "Multiple risk factors detected. Consider clinician follow-up."

summarizeStatus(d) ==
    LET b == computeBMI(d.height, d.weight)
        a0 == [score |-> 0, reasons |-> <<>>]
        a1 == CheckBMI(a0, b)
        a2 == CheckSleep(a1, d)
        a3 == CheckStress(a2, d)
        a4 == CheckSmoking(a3, d)
        a5 == CheckAlcohol(a4, d)
        a6 == CheckHeartRate(a5, d)
        a7 == CheckTemperature(a6, d)
        a8 == CheckSpo2(a7, d)
        a9 == CheckFamilyHistory(a8, d)
        a10 == CheckConditions(a9, d)
        level == LevelOf(a10.score)
    IN  [level |-> level, summary |-> SummaryOf(level), bmi |-> b,
         reasons |-> a10.reasons]

-----------------------------------------------------------------------------
(* Properties of the normalizer, checked under SpecNormalize.              *)

Normalized == pc \in {"normalized", "renormalized"}

\* The raw value the argument holds for a field (undefined for a missing
\* key, and for a null or undefined argument).
Given(f) == IF raw.t = "record" THEN Get(raw.v, f) ELSE Undefined

Blank(s) == \A i \in 1..Len(s) : s[i] \in WhiteSpace

\* t is s without its leading and trailing white space.
IsTrimOf(t, s) ==
    \E i \in 1..(Len(s) + 1), j \in 0..Len(s) :
        /\ t = SubSeq(s, i, j)
        /\ \A k \in 1..(i - 1) : s[k] \in WhiteSpace
        /\ \A k \in (j + 1)..Len(s) : s[k] \in WhiteSpace
        /\ t # <<>> => t[1] \notin WhiteSpace /\ t[Len(t)] \notin WhiteSpace

FiniteRawNumbers == {n \in RawNumbers : IsFiniteNum(n)}

\* C1: for every numeric field, a raw finite number is the snapshot's field
\* unchanged, and a raw string whose trimmed text parses to a finite number
\* yields that number; in particular the text that String() gives for a
\* finite number, with any white space around it, yields that number back.
C1_NumberCoercion ==
    Normalized =>
        \A f \in NumberFields :
            LET x == Given(f)
            IN  /\ (x.t = "number" /\ IsFiniteNum(x.v)) => snapshot[f] = x
                /\ (x.t = "string" /\ IsFiniteNum(StringToNumber(Trim(x.v))))
                      => snapshot[f] = Num(StringToNumber(Trim(x.v)))
                /\ x.t = "string" =>
                      \A n \in FiniteRawNumbers :
                          IsTrimOf(NumberToString(n), x.v) => snapshot[f] = Num(n)

\* A numeric field given as a padded text has been parsed to a number that
\* is not 0.
C1_Witness ==
    /\ Normalized
    /\ \E f \in NumberFields :
          /\ Given(f).t = "string"
          /\ Trim(Given(f).v) # Given(f).v
          /\ snapshot[f].t = "number"
          /\ snapshot[f].v # Zero

\* C2: a numeric field is absent whenever its raw value is neither a finite
\* number nor a numeric-looking string: for the empty string, a string of
\* white space only, a string that parses to no finite number, NaN,
\* Infinity, a boolean, an object, null and a missing key.
C2_AbsentUnlessNumeric ==
    Normalized =>
        \A f \in NumberFields :
            LET x == Given(f)
            IN  (\/ x.t \in {"undefined", "null", "boolean", "object", "array"}
                 \/ x.t = "number" /\ ~IsFiniteNum(x.v)
                 \/ x.t = "string" /\ Blank(x.v)
                 \/ x.t = "string" /\ ~IsFiniteNum(StringToNumber(Trim(x.v))))
                    => snapshot[f] = Undefined

\* What the coercion of a string field yielded: full_name shows an absent
\* result as the empty string.
Coerced(f) ==
    IF f = "full_name" /\ snapshot[f] = Str(<<>>) THEN Undefined ELSE snapshot[f]

NumberChars == {DigitChars[i] : i \in 1..10} \cup {".", "-", "+", "e"}

\* C3: for every string field, a raw string yields its trimmed text when
\* that is not empty and absent otherwise, a raw finite number yields its
\* decimal string (a text of digits, sign, point and exponent that parses
\* back to the number), and every other raw value yields absent.
C3_StringCoercion ==
    Normalized =>
        \A f \in StringFields :
            LET x == Given(f)
            IN  /\ (x.t = "string" /\ ~Blank(x.v)) =>
                      /\ Coerced(f).t = "string"
                      /\ IsTrimOf(Coerced(f).v, x.v)
                /\ (x.t = "string" /\ Blank(x.v)) => Coerced(f) = Undefined
                /\ (x.t = "number" /\ IsFiniteNum(x.v)) =>
                      /\ Coerced(f).t = "string"
                      /\ \A i \in 1..Len(Coerced(f).v) :
                            Coerced(f).v[i] \in NumberChars
                      /\ StringToNumber(Coerced(f).v) = x.v
                /\ (\/ x.t \in {"undefined", "null", "boolean", "object", "array"}
                    \/ x.t = "number" /\ ~IsFiniteNum(x.v))
                      => Coerced(f) = Undefined

\* A string field given as a text with white space around it, and another
\* given as a number with a fraction.
C3_Witness ==
    /\ Normalized
    /\ \E f \in StringFields :
          /\ Given(f).t = "string"
          /\ snapshot[f].t = "string"
          /\ snapshot[f].v # <<>>
          /\ Len(snapshot[f].v) < Len(Given(f).v)

OptionalStringFields == StringFields \ {"full_name"}

\* The invariant of a snapshot s made from the raw full name x.
SnapshotInvariant(s, x) ==
    /\ \A f \in NumberFields :
          s[f] = Undefined \/ (s[f].t = "number" /\ IsFiniteNum(s[f].v))
    /\ \A f \in OptionalStringFields :
          \/ s[f] = Undefined
          \/ /\ s[f].t = "string"
             /\ s[f].v # <<>>
             /\ s[f].v[1] \notin WhiteSpace
             /\ s[f].v[Len(s[f].v)] \notin WhiteSpace
    /\ s.full_name.t = "string"
    /\ IsTrimOf(s.full_name.v, s.full_name.v)
    /\ s.full_name.v = <<>> <=>
          ~ \/ x.t = "string" /\ ~Blank(x.v)
            \/ x.t = "number" /\ IsFiniteNum(x.v)

\* C4: in every snapshot normalizeOnboardingData returns, every numeric
\* field is a finite number or absent, every optional string field is a
\* non-empty string without white space at either end or absent, and
\* full_name is a string, empty exactly when its coercion yields absent.
C4_SnapshotInvariant ==
    /\ Normalized => SnapshotInvariant(snapshot, Given("full_name"))
    /\ pc = "renormalized" => SnapshotInvariant(again, snapshot.full_name)

\* A snapshot made from a record that holds Infinity for a numeric field.
C4_Witness ==
    /\ Normalized
    /\ \E f \in NumberFields :
          Given(f).t = "number" /\ ~IsFiniteNum(Given(f).v)
    /\ Given("full_name") = Str(<<" ", "J", "a", "n", "e", " ">>)

\* The snapshot of the empty record.
EmptySnapshot ==
    [f \in DeclaredFields |-> IF f = "full_name" THEN Str(<<>>) ELSE Undefined]

\* C5: normalizeOnboardingData does not fail; for null and for undefined it
\* returns what it returns for {}: full_name '' and every other field
\* absent.
C5_NullishInput ==
    Normalized =>
        /\ snapshot # TypeError
        /\ raw \in {Null, Undefined, Record(EmptyRecord)}
              => snapshot = EmptySnapshot

C5_Witness == Normalized /\ raw = Null

\* obj without the keys outside keep.
Restrict(obj, keep) == [x \in DOMAIN obj \cap keep |-> obj[x]]

\* Values tried under an undeclared key.
UnknownValues == {Undefined, Object, Num(Fin(5, 0)), Str(<<"5">>), Str(<<"x">>)}

\* C6: undeclared keys have no influence: the snapshot has the declared
\* fields as its only keys, and it is the snapshot of the raw record without
\* its undeclared keys and of the raw record with any other value under an
\* undeclared key.
C6_UnknownKeysIgnored ==
    (Normalized /\ raw.t = "record") =>
        /\ DOMAIN snapshot = DeclaredFields
        /\ snapshot = normalizeOnboardingData(Record(Restrict(raw.v, DeclaredFields)))
        /\ \A key \in UnknownKeys, value \in UnknownValues :
              snapshot = normalizeOnboardingData(Record(With(raw.v, key, value)))

\* A record with declared fields and with a number under an undeclared key.
C6_Witness ==
    /\ Normalized
    /\ raw.t = "record"
    /\ Given("unknown") = Num(Fin(382, -1))
    /\ Given("age") = Str(<<"3", "0">>)
    /\ snapshot.age = Num(Fin(30, 0))

\* C7: normalizing a snapshot again gives the same snapshot, field by field.
C7_Idempotent ==
    pc = "renormalized" => \A f \in DeclaredFields : again[f] = snapshot[f]

\* A snapshot that came from texts and numbers to coerce was normalized again.
C7_Witness ==
    /\ pc = "renormalized"
    /\ Given("height") = Str(<<"1", "7", "0">>)
    /\ Given("blood_pressure") = Num(Fin(5, -1))
    /\ again.blood_pressure = Str(<<"0", ".", "5">>)

-----------------------------------------------------------------------------
(* Driver of summarizeStatus: a profile's record is normalized, then       *)
(* summarized.                                                             *)

\* A record of the fields summarizeStatus reads; hw is <<height, weight>>.
StatusRecord(hw, sl, st, sm, al, hr, tc, ox, fh, co) ==
    [height |-> hw[1], weight |-> hw[2], sleep_hours |-> sl, stress_level |-> st,
     smoking_status |-> sm, alcohol_consumption |-> al, heart_rate |-> hr,
     temperature_c |-> tc, spo2 |-> ox, family_history |-> fh, conditions |-> co]

N(i) == Num(Int2Num(i))

\* Every combination of the outcomes of the ten checks (BMI 25.0 and 32.9).
OutcomeRecords ==
    {StatusRecord(hw, sl, st, sm, al, hr, tc, ox, fh, co) :
        hw \in {<<Undefined, Undefined>>, <<N(180), N(81)>>, <<N(170), N(95)>>},
        sl \in {Undefined, N(5)},
        st \in {Undefined, Str(T_high)},
        sm \in {Undefined, Str(T_regular), Str(T_former)},
        al \in {Undefined, Str(T_heavy), Str(T_moderate)},
        hr \in {Undefined, N(101)},
        tc \in {Undefined, Num(Fin(378, -1))},
        ox \in {Undefined, N(93)},
        fh \in {Undefined, Str(<<"H", "e", "a", "r", "t", " ", "a", "t", "t", "a", "c", "k">>)},
        co \in {Undefined, Str(<<"d", "i", "a", "b", "e", "t", "e", "s">>)}}

\* The record of the test "summarizes status with multiple risk factors".
TestStatusRecord ==
    [full_name |-> Str(<<"T", "e", "s", "t">>), height |-> N(170), weight |-> N(95),
     sleep_hours |-> N(5), stress_level |-> Str(T_high),
     smoking_status |-> Str(T_regular), alcohol_consumption |-> Str(T_moderate)]

\* Heights and weights at and around the limits of the BMI ranges: 20.8,
\* 30.0, 29.9, 25.0 (24.999999999999996 as a double), 18.7 (18.75 exactly),
\* and one argument missing, zero or negative.
EdgeHeightWeight ==
    {<<N(170), N(60)>>, <<N(200), N(120)>>, <<N(180), N(97)>>, <<N(160), N(64)>>,
     <<N(160), N(48)>>, <<N(180), Undefined>>, <<Undefined, N(81)>>,
     <<N(180), N(0)>>, <<N(-170), N(60)>>, <<N(180), N(-81)>>}

\* Values at and around the limit of each other check, and texts that differ
\* from the literals by case or hold a keyword inside a word.
EdgeValues ==
    {<<"sleep_hours", N(6)>>, <<"sleep_hours", Num(Fin(59, -1))>>,
     <<"sleep_hours", N(0)>>, <<"sleep_hours", N(7)>>,
     <<"stress_level", Str(T_very_high)>>, <<"stress_level", Str(T_moderate)>>,
     <<"stress_level", Str(<<"H", "i", "g", "h">>)>>,
     <<"smoking_status", Str(T_occasional)>>, <<"smoking_status", Str(<<"n", "e", "v", "e", "r">>)>>,
     <<"smoking_status", Str(<<"R", "e", "g", "u", "l", "a", "r">>)>>,
     <<"alcohol_consumption", Str(<<"n", "o", "n", "e">>)>>,
     <<"alcohol_consumption", Str(T_heavy)>>,
     <<"heart_rate", N(100)>>, <<"heart_rate", Num(Fin(1005, -1))>>,
     <<"temperature_c", Num(Fin(377, -1))>>, <<"temperature_c", Num(Fin(378, -1))>>,
     <<"temperature_c", Num(Fin(382, -1))>>,
     <<"spo2", N(94)>>, <<"spo2", Num(Fin(939, -1))>>,
     <<"family_history", Str(<<"c", "a", "r", "d", "i", "a", "c", " ", "a", "r", "r", "e", "s", "t">>)>>,
     <<"family_history", Str(<<"S", "t", "r", "o", "k", "e">>)>>,
     <<"family_history", Str(<<"c", "a", "n", "c", "e", "r">>)>>,
     <<"family_history", Str(<<"H", "E", "A", "R", "T">>)>>,
     <<"conditions", Str(<<"H", "y", "p", "e", "r", "t", "e", "n", "s", "i", "o", "n">>)>>,
     <<"conditions", Str(<<"s", "u", "b", "p", "a", "r">>)>>,
     <<"conditions", Str(<<"h", "i", "g", "h", " ", "b", "l", "o", "o", "d", " ", "p", "r", "e", "s", "s", "u", "r", "e">>)>>,
     <<"conditions", Str(<<"a", "s", "t", "h", "m", "a">>)>>}

EdgeRecords ==
    {With(With(b, "height", hw[1]), "weight", hw[2]) :
        b \in {EmptyRecord, TestStatusRecord}, hw \in EdgeHeightWeight}
    \cup {With(b, fv[1], fv[2]) : b \in {EmptyRecord, TestStatusRecord}, fv \in EdgeValues}

StatusRecords == OutcomeRecords \cup EdgeRecords \cup {EmptyRecord, TestStatusRecord}

InitStatus ==
    /\ pc = "profile"
    /\ data \in {normalizeOnboardingData(Record(r)) : r \in StatusRecords}
    /\ status = None
    /\ raw = None /\ snapshot = None /\ again = None
    /\ heightCm = None /\ weightKg = None /\ bmi = None
    /\ insights = None /\ offers = None /\ recs = None
    /\ NoForm
    /\ NoOthers

\* const status = summarizeStatus(data)
Summarize ==
    /\ pc = "profile"
    /\ status' = summarizeStatus(data)
    /\ pc' = "summarized"
    /\ UNCHANGED <<raw, snapshot, again, heightCm, weightKg, bmi, data, insights, offers, recs, form, others>>

NextStatus == Summarize

SpecStatus == InitStatus /\ [][NextStatus]_vars

-----------------------------------------------------------------------------
(* Properties of computeBMI, checked under SpecBMI.                        *)

\* The whole number a finite number with no fraction stands for.
IntOf(n) == n.m * Pow10(n.e)

\* b is w / (h/100)^2 rounded to one decimal, for whole h > 0 and w # 0: b
\* has the sign of w and at most one decimal, its tenths are the nearest to
\* the exact quotient, and an exact half is rounded upwards or to the even
\* tenth.
IsRoundedQuotient(b, h, w) ==
    LET num == Abs(IntOf(w)) * 100000
        den == IntOf(h) * IntOf(h)
        r == Abs(b.m) * Pow10(b.e + 1)
        above == (2 * num + den) \div (2 * den)
    IN  /\ b.e >= -1
        /\ b.m = 0 \/ Sign(b) = Sign(w)
        /\ \/ Abs(2 * (r * den - num)) < den
           \/ /\ Abs(2 * (r * den - num)) = den
              /\ r = above \/ r % 2 = 0

FiniteOrAbsent(x) == x = Undefined \/ (x.t = "number" /\ IsFiniteNum(x.v))

\* C8: computeBMI(heightCm, weightKg) is weightKg / (heightCm/100)^2 rounded
\* to one decimal when both arguments are present, heightCm > 0 and weightKg
\* is not 0, and absent (null) otherwise; it is never NaN or Infinity; and
\* computeBMI(180, 81) is 25.0.
C8_BMIRounded ==
    pc = "computed" =>
        /\ bmi = Null \/ (bmi.t = "number" /\ IsFiniteNum(bmi.v))
        /\ (FiniteOrAbsent(heightCm) /\ FiniteOrAbsent(weightKg)) =>
              IF /\ heightCm # Undefined /\ weightKg # Undefined
                 /\ NumGreater(heightCm.v, Zero) /\ weightKg.v # Zero
              THEN /\ bmi.t = "number"
                   /\ IsRoundedQuotient(bmi.v, heightCm.v, weightKg.v)
              ELSE bmi = Null
        /\ (heightCm = N(180) /\ weightKg = N(81)) => bmi = N(25)

-----------------------------------------------------------------------------
(* Properties of summarizeStatus, checked under SpecStatus.                *)

\* c and k are the same character up to the case of a letter.
SameLetter(c, k) ==
    c = k \/ \E i \in 1..Len(UpperLetters) : UpperLetters[i] = c /\ LowerLetters[i] = k

\* The text field x contains the lower-case keyword kw, whatever the case of
\* its letters.
ContainsCI(x, kw) ==
    /\ x.t = "string"
    /\ \E i \in 0..(Len(x.v) - Len(kw)) :
          \A j \in 1..Len(kw) : SameLetter(x.v[i + j], kw[j])

Present(x) == x # Undefined

\* The table of the risk scorer: each check's reason, score delta and
\* whether its condition holds for the snapshot d with BMI b.
RiskTable(d, b) ==
    LET obese == b # Null /\ NumGeq(b.v, Int2Num(30))
        regular == d.smoking_status = Str(T_regular)
        heavy == d.alcohol_consumption = Str(T_heavy)
    IN  <<[reason |-> "BMI in obese range", delta |-> 2, holds |-> obese],
          [reason |-> "BMI in overweight range", delta |-> 1,
           holds |-> ~obese /\ b # Null /\ NumGeq(b.v, Int2Num(25))],
          [reason |-> "Low sleep (<6h)", delta |-> 1,
           holds |-> Present(d.sleep_hours) /\ NumLess(d.sleep_hours.v, Int2Num(6))],
          [reason |-> "Elevated stress", delta |-> 1,
           holds |-> d.stress_level \in {Str(T_high), Str(T_very_high)}],
          [reason |-> "Smoking habit", delta |-> 2, holds |-> regular],
          [reason |-> "Smoking history", delta |-> 1,
           holds |-> ~regular /\ d.smoking_status \in {Str(T_occasional), Str(T_former)}],
          [reason |-> "Heavy alcohol intake", delta |-> 2, holds |-> heavy],
          [reason |-> "Moderate alcohol intake", delta |-> 1,
           holds |-> ~heavy /\ d.alcohol_consumption = Str(T_moderate)],
          [reason |-> "Elevated heart rate", delta |-> 1,
           holds |-> Present(d.heart_rate) /\ NumLess(Int2Num(100), d.heart_rate.v)],
          [reason |-> "Fever-range temperature", delta |-> 1,
           holds |-> Present(d.temperature_c)
                       /\ ~NumLess(d.temperature_c.v, Fin(378, -1))],
          [reason |-> "Low oxygen saturation", delta |-> 1,
           holds |-> Present(d.spo2) /\ NumLess(d.spo2.v, Int2Num(94))],
          [reason |-> "Cardiovascular family history", delta |-> 1,
           holds |-> \E kw \in {T_heart, T_cardiac, T_stroke} :
                        ContainsCI(d.family_history, kw)],
          [reason |-> "Chronic condition risk", delta |-> 1,
           holds |-> \E kw \in {T_diab, T_hypertension, T_bp, T_blood_pressure} :
                        ContainsCI(d.conditions, kw)]>>

RowHolds(row) == row.holds

\* The rows of the table whose condition holds, in the table's order.
Triggered(d, b) == SelectSeq(RiskTable(d, b), RowHolds)

RECURSIVE SumDeltas(_)
SumDeltas(rows) == IF rows = <<>> THEN 0 ELSE Head(rows).delta + SumDeltas(Tail(rows))

Has(reasons, r) == \E i \in 1..Len(reasons) : reasons[i] = r

\* C9: the reasons summarizeStatus returns are exactly the reasons of the
\* checks whose condition holds, each once, in the order of the table; the
\* two alternatives of an 'else' pair never both appear.
C9_ReasonsInTableOrder ==
    pc = "summarized" =>
        LET rows == Triggered(data, status.bmi)
            rs == status.reasons
        IN  /\ rs = [i \in 1..Len(rows) |-> rows[i].reason]
            /\ \A i, j \in 1..Len(rs) : rs[i] = rs[j] => i = j
            /\ ~(Has(rs, "BMI in obese range") /\ Has(rs, "BMI in overweight range"))
            /\ ~(Has(rs, "Smoking habit") /\ Has(rs, "Smoking history"))
            /\ ~(Has(rs, "Heavy alcohol intake") /\ Has(rs, "Moderate alcohol intake"))

\* A summary in which the second alternative of every 'else' pair and the
\* last check of the table have fired among others.
C9_Witness ==
    /\ pc = "summarized"
    /\ Len(status.reasons) >= 8
    /\ Has(status.reasons, "BMI in overweight range")
    /\ Has(status.reasons, "Smoking history")
    /\ Has(status.reasons, "Moderate alcohol intake")
    /\ Has(status.reasons, "Chronic condition risk")

\* C10: the level is 'action' iff the score deltas of the triggered checks
\* sum to at least 4, 'watch' iff they sum to 2 or 3 and 'good' iff they sum
\* to 0 or 1; the summary is the fixed sentence of the level.
C10_LevelFromScore ==
    pc = "summarized" =>
        LET score == SumDeltas(Triggered(data, status.bmi))
        IN  /\ status.level = "action" <=> score >= 4
            /\ status.level = "watch" <=> score \in {2, 3}
            /\ status.level = "good" <=> score \in {0, 1}
            /\ status.level = "action" =>
                  status.summary = "Multiple risk factors detected. Consider clinician follow-up."
            /\ status.level = "watch" =>
                  status.summary = "Some risk factors detected. Monitor and address them proactively."
            /\ status.level = "good" =>
                  status.summary = "Stable baseline with no major red flags detected."

\* The test's profile: obese BMI, low sleep, stress, regular smoking and
\* moderate alcohol give 'action'.
C10_Witness ==
    /\ pc = "summarized"
    /\ data = normalizeOnboardingData(Record(TestStatusRecord))
    /\ status.level = "action"
    /\ Has(status.reasons, "BMI in obese range")
    /\ Has(status.reasons, "Low sleep (<6h)")
    /\ SumDeltas(Triggered(data, status.bmi)) = 7

-----------------------------------------------------------------------------
(* buildInsights.  An insight's title, action and severity are literals of  *)
(* the code; its detail is a template literal, kept as the template and    *)
(* the texts of its ${...} expressions in order.  The dashes, the degree   *)
(* sign and the subscript of the literals are written in ASCII.            *)

T_sedentary == <<"s", "e", "d", "e", "n", "t", "a", "r", "y">>
T_light == <<"l", "i", "g", "h", "t">>
T_cancer == <<"c", "a", "n", "c", "e", "r">>
T_obese == <<"o", "b", "e", "s", "e">>
T_overweight == <<"o", "v", "e", "r", "w", "e", "i", "g", "h", "t">>
T_underweight == <<"u", "n", "d", "e", "r", "w", "e", "i", "g", "h", "t">>
T_healthy == <<"h", "e", "a", "l", "t", "h", "y">>

\* `...${values[1]}...${values[2]}...`
Template(text, values) == [template |-> text, values |-> values]

Insight(title, detail, action, severity) ==
    [title |-> title, detail |-> detail, action |-> action, severity |-> severity]

\* String.prototype.replace with two one-character strings: the first
\* occurrence only.
ReplaceFirst(s, from, to) ==
    IF InSeq(from, s) THEN [s EXCEPT ![IndexOf(from, s)] = to] ELSE s

\* Array.prototype.includes on an array of strings.
ArrayIncludes(arr, x) == \E i \in 1..Len(arr) : Str(arr[i]) = x

OverallStatus(st) ==
    Insight("Overall status",
            Template(st.summary, <<>>),
            IF st.level = "action"
            THEN "Schedule a clinician review to address the highlighted risks."
            ELSE IF st.level = "watch"
                 THEN "Track metrics weekly and adjust lifestyle factors."
            ELSE "Maintain current habits and continue periodic check-ins.",
            IF st.level = "action" THEN "high"
            ELSE IF st.level = "watch" THEN "medium" ELSE "low")

BodyComposition(list, st) ==
    IF Truthy(st.bmi)
    THEN LET cat == IF NumGeq(st.bmi.v, Int2Num(30)) THEN T_obese
                    ELSE IF NumGeq(st.bmi.v, Int2Num(25)) THEN T_overweight
                    ELSE IF NumLess(st.bmi.v, Fin(185, -1)) THEN T_underweight
                    ELSE T_healthy
             severity == IF cat = T_healthy THEN "low"
                         ELSE IF cat = T_overweight THEN "medium" ELSE "high"
         IN  Append(list,
                 Insight("Body composition",
                         Template("BMI ${status.bmi} (${cat}).",
                                  <<NumberToString(st.bmi.v), cat>>),
                         IF cat = T_healthy
                         THEN "Keep balanced nutrition and activity levels."
                         ELSE "Aim for gradual changes (sleep, nutrition, activity); consider a clinician or dietitian check-in.",
                         severity))
    ELSE list

\* Mutant of SleepHygiene: six hours of sleep are graded 'high' (`<= 6`).
SleepHygiene_AtMost6(list, d) ==
    IF DefinedLess(d.sleep_hours, Int2Num(7))
    THEN Append(list,
             Insight("Sleep hygiene",
                     Template("Average sleep ${data.sleep_hours}h - below the 7-9h target.",
                              <<NumberToString(d.sleep_hours.v)>>),
                     "Set a regular schedule, reduce caffeine late day, and wind-down 60 minutes before bed.",
                     IF NumLeq(d.sleep_hours.v, Int2Num(6)) THEN "high" ELSE "medium"))
    ELSE list


SleepHygiene(list, d) ==
    IF DefinedLess(d.sleep_hours, Int2Num(7))
    THEN Append(list,
             Insight("Sleep hygiene",
                     Template("Average sleep ${data.sleep_hours}h - below the 7-9h target.",
                              <<NumberToString(d.sleep_hours.v)>>),
                     "Set a regular schedule, reduce caffeine late day, and wind-down 60 minutes before bed.",
                     IF NumLess(d.sleep_hours.v, Int2Num(6)) THEN "high" ELSE "medium"))
    ELSE list

HeartRate(list, d) ==
    IF DefinedGreater(d.heart_rate, Int2Num(100))
    THEN Append(list,
             Insight("Heart rate",
                     Template("Resting heart rate ${data.heart_rate} bpm - above normal range.",
                              <<NumberToString(d.heart_rate.v)>>),
                     "If persistent, discuss with a clinician; check hydration, caffeine, and stress.",
                     "medium"))
    ELSE list

FeverSignal(list, d) ==
    IF DefinedGeq(d.temperature_c, Fin(378, -1))
    THEN Append(list,
             Insight("Fever signal",
                     Template("Temperature ${data.temperature_c} C.",
                              <<NumberToString(d.temperature_c.v)>>),
                     "Monitor symptoms and seek care if fever persists or worsens.",
                     "medium"))
    ELSE list

OxygenSaturation(list, d) ==
    IF DefinedLess(d.spo2, Int2Num(94))
    THEN Append(list,
             Insight("Oxygen saturation",
                     Template("SpO2 ${data.spo2}% - below typical baseline.",
                              <<NumberToString(d.spo2.v)>>),
                     "If symptomatic (e.g., breathlessness), consider urgent evaluation.",
                     "high"))
    ELSE list

CurrentSymptoms(list, d) ==
    IF Truthy(d.symptoms_current)
    THEN Append(list,
             Insight("Current symptoms",
                     Template("${data.symptoms_current}", <<d.symptoms_current.v>>),
                     "Used to triage and tailor recommendations.",
                     "medium"))
    ELSE list

StressLoad(list, d) ==
    IF d.stress_level = Str(T_high) \/ d.stress_level = Str(T_very_high)
    THEN Append(list,
             Insight("Stress load",
                     Template("Reported stress: ${data.stress_level?.replace('_', ' ')}",
                              <<ReplaceFirst(d.stress_level.v, "_", " ")>>),
                     "Integrate brief daily decompression (breathing, walks) and consider speaking with a counselor.",
                     "medium"))
    ELSE list

ActivityLevel(list, d) ==
    IF Truthy(d.exercise_frequency)
       /\ ArrayIncludes(<<T_sedentary, T_light>>, d.exercise_frequency)
    THEN Append(list,
             Insight("Activity level",
                     Template("Exercise: ${data.exercise_frequency}.",
                              <<d.exercise_frequency.v>>),
                     "Target 150 minutes/week of moderate activity; start with 10-20 minute walks most days.",
                     "medium"))
    ELSE list

TobaccoRisk(list, d) ==
    IF d.smoking_status = Str(T_regular) \/ d.smoking_status = Str(T_occasional)
    THEN Append(list,
             Insight("Tobacco risk",
                     Template("Smoking status: ${data.smoking_status}.",
                              <<d.smoking_status.v>>),
                     "Discuss cessation aids and lung screening timeline with a clinician.",
                     IF d.smoking_status = Str(T_regular) THEN "high" ELSE "medium"))
    ELSE list

AlcoholUse(list, d) ==
    IF d.alcohol_consumption = Str(T_heavy) \/ d.alcohol_consumption = Str(T_moderate)
    THEN Append(list,
             Insight("Alcohol use",
                     Template("Alcohol intake: ${data.alcohol_consumption}.",
                              <<d.alcohol_consumption.v>>),
                     "Limit to within recommended guidelines; consider alcohol-free days each week.",
                     IF d.alcohol_consumption = Str(T_heavy) THEN "high" ELSE "medium"))
    ELSE list

FamilyHistoryFlags(list, d) ==
    IF hasKeyword(d.family_history, <<T_heart, T_stroke, T_cancer>>)
    THEN Append(list,
             Insight("Family history flags",
                     Template("Family history includes cardiovascular or cancer risk.", <<>>),
                     "Share this with your primary doctor; adhere to screening intervals earlier where indicated.",
                     "medium"))
    ELSE list

\* Mutant of ChronicConditions: the detail is pushed without the value.
ChronicConditions_NoValue(list, d) ==
    IF Truthy(d.conditions)
    THEN Append(list,
             Insight("Chronic conditions",
                     Template("Reported: ${data.conditions}.", <<>>),
                     "Ensure medications are reconciled and monitoring plans are in place.",
                     "medium"))
    ELSE list


ChronicConditions(list, d) ==
    IF Truthy(d.conditions)
    THEN Append(list,
             Insight("Chronic conditions",
                     Template("Reported: ${data.conditions}.", <<d.conditions.v>>),
                     "Ensure medications are reconciled and monitoring plans are in place.",
                     "medium"))
    ELSE list

\* Mutant of buildInsights: the overall insight is pushed last.
buildInsights_StatusLast(d) ==
    LET st == summarizeStatus(d)
        i2 == BodyComposition(<<>>, st)
        i3 == SleepHygiene(i2, d)
        i4 == HeartRate(i3, d)
        i5 == FeverSignal(i4, d)
        i6 == OxygenSaturation(i5, d)
        i7 == CurrentSymptoms(i6, d)
        i8 == StressLoad(i7, d)
        i9 == ActivityLevel(i8, d)
        i10 == TobaccoRisk(i9, d)
        i11 == AlcoholUse(i10, d)
        i12 == FamilyHistoryFlags(i11, d)
        i13 == ChronicConditions(i12, d)
    IN  Append(i13, OverallStatus(st))

buildInsights(d) ==
    LET st == summarizeStatus(d)
        i1 == <<OverallStatus(st)>>
        i2 == BodyComposition(i1, st)
        i3 == SleepHygiene(i2, d)
        i4 == HeartRate(i3, d)
        i5 == FeverSignal(i4, d)
        i6 == OxygenSaturation(i5, d)
        i7 == CurrentSymptoms(i6, d)
        i8 == StressLoad(i7, d)
        i9 == ActivityLevel(i8, d)
        i10 == TobaccoRisk(i9, d)
        i11 == AlcoholUse(i10, d)
        i12 == FamilyHistoryFlags(i11, d)
        i13 == ChronicConditions(i12, d)
    IN  i13

-----------------------------------------------------------------------------
(* Driver of buildInsights: a profile's record is normalized, then its     *)
(* insights are built.                                                     *)

\* The record of the test "builds insights and recommendations from data".
TestInsightRecord ==
    [conditions |-> Str(T_hypertension),
     family_history |-> Str(<<"h", "e", "a", "r", "t", " ", "d", "i", "s", "e", "a", "s", "e">>),
     smoking_status |-> Str(T_regular), sleep_hours |-> N(6),
     stress_level |-> Str(T_high),
     symptoms_current |-> Str(<<"c", "h", "e", "s", "t", " ", "p", "a", "i", "n">>),
     location |-> Str(<<"M", "u", "m", "b", "a", "i">>)]

\* A record of the fields buildInsights reads; hw is <<height, weight>>.
InsightRecord(hw, sl, hr, tc, ox, sy, st, ex, sm, al, fh, co) ==
    [height |-> hw[1], weight |-> hw[2], sleep_hours |-> sl, heart_rate |-> hr,
     temperature_c |-> tc, spo2 |-> ox, symptoms_current |-> sy, stress_level |-> st,
     exercise_frequency |-> ex, smoking_status |-> sm, alcohol_consumption |-> al,
     family_history |-> fh, conditions |-> co]

\* Every combination of the outcomes of the conditions of the insights (BMI
\* absent, 20.8 and 32.9).
InsightOutcomeRecords ==
    {InsightRecord(hw, sl, hr, tc, ox, sy, st, ex, sm, al, fh, co) :
        hw \in {<<Undefined, Undefined>>, <<N(170), N(60)>>, <<N(170), N(95)>>},
        sl \in {Undefined, Num(Fin(65, -1))},
        hr \in {Undefined, N(101)},
        tc \in {Undefined, Num(Fin(378, -1))},
        ox \in {Undefined, N(93)},
        sy \in {Undefined, Str(<<"c", "o", "u", "g", "h">>)},
        st \in {Undefined, Str(T_very_high)},
        ex \in {Undefined, Str(T_light)},
        sm \in {Undefined, Str(T_occasional)},
        al \in {Undefined, Str(T_heavy)},
        fh \in {Undefined, Str(<<"B", "r", "e", "a", "s", "t", " ", "C", "a", "n", "c", "e", "r">>)},
        co \in {Undefined, Str(<<"a", "s", "t", "h", "m", "a">>)}}

\* A record for which every insight is emitted.
FullInsightRecord ==
    InsightRecord(<<N(180), N(81)>>, N(5), N(120), Num(Fin(39, 0)), N(90),
                  Str(<<"c", "o", "u", "g", "h">>), Str(T_high), Str(T_sedentary), Str(T_regular),
                  Str(T_moderate), Str(T_stroke), Str(<<"d", "i", "a", "b", "e", "t", "e", "s">>))

\* Heights and weights at and around the limits of the BMI categories: 30.0,
\* 29.9, 25.0, 24.9, 18.5, 18.4, a negative BMI, a BMI that rounds to 0 (0.04
\* and 0.03 before rounding), and one argument missing or zero.
InsightHeightWeight ==
    {<<N(200), N(120)>>, <<N(180), N(97)>>, <<N(160), N(64)>>, <<N(170), N(72)>>,
     <<N(200), N(74)>>, <<N(180), Num(Fin(596, -1))>>, <<N(170), N(-60)>>,
     <<N(500), N(1)>>, <<N(170), Num(Fin(1, -1))>>, <<N(180), Undefined>>,
     <<Undefined, N(81)>>, <<N(180), N(0)>>, <<N(0), N(81)>>}

\* Values at and around the limit of each other condition, raw texts the
\* normalizer changes, and texts that differ from the literals by case.
InsightEdgeValues ==
    {<<"sleep_hours", N(7)>>, <<"sleep_hours", Num(Fin(69, -1))>>,
     <<"sleep_hours", N(6)>>, <<"sleep_hours", Num(Fin(59, -1))>>,
     <<"sleep_hours", N(0)>>, <<"sleep_hours", Str(<<"6", ".", "5">>)>>,
     <<"heart_rate", N(100)>>, <<"heart_rate", Num(Fin(1005, -1))>>,
     <<"temperature_c", Num(Fin(377, -1))>>, <<"temperature_c", Num(Fin(382, -1))>>,
     <<"spo2", N(94)>>, <<"spo2", Num(Fin(939, -1))>>,
     <<"symptoms_current", Str(<<" ", " ">>)>>, <<"symptoms_current", N(0)>>,
     <<"symptoms_current", Str(<<" ", "c", "h", "e", "s", "t", " ", "p", "a", "i", "n", " ">>)>>,
     <<"stress_level", Str(T_high)>>, <<"stress_level", Str(T_moderate)>>,
     <<"stress_level", Str(<<"V", "e", "r", "y", "_", "H", "i", "g", "h">>)>>,
     <<"exercise_frequency", Str(T_sedentary)>>, <<"exercise_frequency", Str(T_moderate)>>,
     <<"exercise_frequency", Str(<<"L", "i", "g", "h", "t">>)>>, <<"exercise_frequency", Str(<<"l", "i", "g", "h", "t", " ", "e", "x", "e", "r", "c", "i", "s", "e">>)>>,
     <<"smoking_status", Str(T_regular)>>, <<"smoking_status", Str(T_former)>>,
     <<"smoking_status", Str(<<"n", "e", "v", "e", "r">>)>>,
     <<"alcohol_consumption", Str(T_moderate)>>, <<"alcohol_consumption", Str(<<"n", "o", "n", "e">>)>>,
     <<"alcohol_consumption", Str(<<"H", "e", "a", "v", "y">>)>>,
     <<"family_history", Str(<<"h", "e", "a", "r", "t", " ", "d", "i", "s", "e", "a", "s", "e">>)>>, <<"family_history", Str(T_cardiac)>>,
     <<"family_history", Str(<<"S", "T", "R", "O", "K", "E">>)>>, <<"family_history", Str(<<"d", "i", "a", "b", "e", "t", "e", "s">>)>>,
     <<"conditions", Str(<<" ">>)>>, <<"conditions", N(5)>>,
     <<"conditions", Str(T_hypertension)>>}

InsightEdgeRecords ==
    {With(With(b, "height", hw[1]), "weight", hw[2]) :
        b \in {EmptyRecord, FullInsightRecord, TestInsightRecord},
        hw \in InsightHeightWeight}
    \cup {With(b, fv[1], fv[2]) :
            b \in {EmptyRecord, FullInsightRecord, TestInsightRecord},
            fv \in InsightEdgeValues}

InsightRecords ==
    InsightOutcomeRecords \cup InsightEdgeRecords
        \cup {EmptyRecord, FullInsightRecord, TestInsightRecord}

InitInsights ==
    /\ pc = "profile"
    /\ data \in {normalizeOnboardingData(Record(r)) : r \in InsightRecords}
    /\ insights = None
    /\ raw = None /\ snapshot = None /\ again = None
    /\ heightCm = None /\ weightKg = None /\ bmi = None
    /\ status = None /\ offers = None /\ recs = None
    /\ NoForm
    /\ NoOthers

\* const insights = buildInsights(data)
BuildInsights ==
    /\ pc = "profile"
    /\ insights' = buildInsights(data)
    /\ pc' = "insights"
    /\ UNCHANGED <<raw, snapshot, again, heightCm, weightKg, bmi, data, status, offers, recs, form, others>>

NextInsights == BuildInsights

SpecInsights == InitInsights /\ [][NextInsights]_vars

-----------------------------------------------------------------------------
(* Properties of buildInsights, checked under SpecInsights.                *)

\* The level the risk table gives the snapshot d: the deltas of its
\* triggered rows summed and compared with 4 and 2.
TableLevel(d) ==
    LET score == SumDeltas(Triggered(d, computeBMI(d.height, d.weight)))
    IN  IF score >= 4 THEN "action" ELSE IF score >= 2 THEN "watch" ELSE "good"

Titles(list) == [i \in 1..Len(list) |-> list[i].title]

\* C11: buildInsights returns a non-empty list whose first element has the
\* title 'Overall status', the summary of summarizeStatus(snapshot) as its
\* detail and the severity 'high', 'medium' or 'low' exactly when the level
\* is 'action', 'watch' or 'good'; no other element has that title.
C11_OverallStatusFirst ==
    pc = "insights" =>
        LET level == TableLevel(data)
            first == insights[1]
        IN  /\ Len(insights) >= 1
            /\ first.title = "Overall status"
            /\ first.detail = Template(summarizeStatus(data).summary, <<>>)
            /\ level = "action" =>
                  first.detail.template
                      = "Multiple risk factors detected. Consider clinician follow-up."
            /\ level = "watch" =>
                  first.detail.template
                      = "Some risk factors detected. Monitor and address them proactively."
            /\ level = "good" =>
                  first.detail.template
                      = "Stable baseline with no major red flags detected."
            /\ first.severity = "high" <=> level = "action"
            /\ first.severity = "medium" <=> level = "watch"
            /\ first.severity = "low" <=> level = "good"
            /\ \A i \in 2..Len(insights) : insights[i].title # "Overall status"

\* The insights of the test's profile: the overall insight comes first with
\* severity 'high' (score 5), and 'Current symptoms' follows it.
C11_Witness ==
    /\ pc = "insights"
    /\ data = normalizeOnboardingData(Record(TestInsightRecord))
    /\ insights[1].title = "Overall status"
    /\ insights[1].severity = "high"
    /\ \E i \in 2..Len(insights) : insights[i].title = "Current symptoms"

\* The conditional insights in their fixed order: each one's title and
\* whether its condition holds for the snapshot d.
InsightTable(d) ==
    <<[title |-> "Body composition",
       holds |-> computeBMI(d.height, d.weight) # Null],
      [title |-> "Sleep hygiene",
       holds |-> Present(d.sleep_hours) /\ NumLess(d.sleep_hours.v, Int2Num(7))],
      [title |-> "Heart rate",
       holds |-> Present(d.heart_rate) /\ NumLess(Int2Num(100), d.heart_rate.v)],
      [title |-> "Fever signal",
       holds |-> Present(d.temperature_c) /\ ~NumLess(d.temperature_c.v, Fin(378, -1))],
      [title |-> "Oxygen saturation",
       holds |-> Present(d.spo2) /\ NumLess(d.spo2.v, Int2Num(94))],
      [title |-> "Current symptoms", holds |-> Present(d.symptoms_current)],
      [title |-> "Stress load",
       holds |-> d.stress_level \in {Str(T_high), Str(T_very_high)}],
      [title |-> "Activity level",
       holds |-> d.exercise_frequency \in {Str(T_sedentary), Str(T_light)}],
      [title |-> "Tobacco risk",
       holds |-> d.smoking_status \in {Str(T_regular), Str(T_occasional)}],
      [title |-> "Alcohol use",
       holds |-> d.alcohol_consumption \in {Str(T_heavy), Str(T_moderate)}],
      [title |-> "Family history flags",
       holds |-> \E kw \in {T_heart, T_stroke, T_cancer} :
                    ContainsCI(d.family_history, kw)],
      [title |-> "Chronic conditions", holds |-> Present(d.conditions)]>>

\* The fixed order of the titles.
InsightOrder ==
    <<"Overall status", "Body composition", "Sleep hygiene", "Heart rate",
      "Fever signal", "Oxygen saturation", "Current symptoms", "Stress load",
      "Activity level", "Tobacco risk", "Alcohol use", "Family history flags",
      "Chronic conditions">>

\* The place of a title in the fixed order (0 for a title it does not have).
PlaceOf(title) ==
    IF \E k \in 1..Len(InsightOrder) : InsightOrder[k] = title
    THEN CHOOSE k \in 1..Len(InsightOrder) : InsightOrder[k] = title
    ELSE 0

\* C12: the titles of buildInsights' result are pairwise distinct and in the
\* fixed order Overall status, Body composition, Sleep hygiene, Heart rate,
\* Fever signal, Oxygen saturation, Current symptoms, Stress load, Activity
\* level, Tobacco risk, Alcohol use, Family history flags, Chronic
\* conditions, and each conditional insight is in the list if and only if
\* its condition holds for the snapshot.
C12_InsightsInFixedOrder ==
    pc = "insights" =>
        LET ts == Titles(insights)
            table == InsightTable(data)
        IN  /\ \A i, j \in 1..Len(ts) : ts[i] = ts[j] => i = j
            /\ \A i \in 1..Len(ts) : PlaceOf(ts[i]) >= 1
            /\ \A i, j \in 1..Len(ts) : i < j => PlaceOf(ts[i]) < PlaceOf(ts[j])
            /\ Titles(table) = Tail(InsightOrder)
            /\ ts = <<"Overall status">> \o Titles(SelectSeq(table, RowHolds))
            /\ \A k \in 1..Len(table) :
                  table[k].holds <=> \E i \in 1..Len(ts) : ts[i] = table[k].title

\* The category and the severity of a BMI b.
CategoryOf(b) ==
    IF ~NumLess(b, Int2Num(30)) THEN [cat |-> T_obese, severity |-> "high"]
    ELSE IF ~NumLess(b, Int2Num(25)) THEN [cat |-> T_overweight, severity |-> "medium"]
    ELSE IF NumLess(b, Fin(185, -1)) THEN [cat |-> T_underweight, severity |-> "high"]
    ELSE [cat |-> T_healthy, severity |-> "low"]

WithTitle(list, title) == {i \in 1..Len(list) : list[i].title = title}

\* C13: whenever computeBMI(snapshot.height, snapshot.weight) is a number,
\* buildInsights includes a 'Body composition' insight with the category
\* obese (BMI >= 30), overweight (25 <= BMI < 30), underweight (BMI < 18.5)
\* or healthy (otherwise) and the severity low for healthy, medium for
\* overweight and high for obese and underweight; when the BMI is absent
\* there is no such insight.
C13_BodyComposition ==
    pc = "insights" =>
        LET b == computeBMI(data.height, data.weight)
            body == WithTitle(insights, "Body composition")
        IN  IF b # Null
            THEN /\ Cardinality(body) = 1
                 /\ \A i \in body :
                       /\ insights[i].detail.values[2] = CategoryOf(b.v).cat
                       /\ insights[i].severity = CategoryOf(b.v).severity
            ELSE body = {}

\* The literal pieces of a template of buildInsights, in order: the texts
\* before, between and after its interpolated values.
Pieces(template) ==
    CASE template = "BMI ${status.bmi} (${cat})." ->
          <<<<"B", "M", "I", " ">>, <<" ", "(">>, <<")", ".">>>>
   [] template = "Average sleep ${data.sleep_hours}h - below the 7-9h target." ->
          <<<<"A", "v", "e", "r", "a", "g", "e", " ", "s", "l", "e", "e", "p",
          " ">>, <<"h", " ", "-", " ", "b", "e", "l", "o", "w", " ", "t", "h",
          "e", " ", "7", "-", "9", "h", " ", "t", "a", "r", "g", "e", "t",
          ".">>>>
   [] template = "Resting heart rate ${data.heart_rate} bpm - above normal range." ->
          <<<<"R", "e", "s", "t", "i", "n", "g", " ", "h", "e", "a", "r", "t",
          " ", "r", "a", "t", "e", " ">>, <<" ", "b", "p", "m", " ", "-", " ",
          "a", "b", "o", "v", "e", " ", "n", "o", "r", "m", "a", "l", " ", "r",
          "a", "n", "g", "e", ".">>>>
   [] template = "Temperature ${data.temperature_c} C." ->
          <<<<"T", "e", "m", "p", "e", "r", "a", "t", "u", "r", "e", " ">>,
          <<" ", "C", ".">>>>
   [] template = "SpO2 ${data.spo2}% - below typical baseline." ->
          <<<<"S", "p", "O", "2", " ">>, <<"%", " ", "-", " ", "b", "e", "l",
          "o", "w", " ", "t", "y", "p", "i", "c", "a", "l", " ", "b", "a", "s",
          "e", "l", "i", "n", "e", ".">>>>
   [] template = "${data.symptoms_current}" ->
          <<<<>>, <<>>>>
   [] template = "Reported stress: ${data.stress_level?.replace('_', ' ')}" ->
          <<<<"R", "e", "p", "o", "r", "t", "e", "d", " ", "s", "t", "r", "e",
          "s", "s", ":", " ">>, <<>>>>
   [] template = "Exercise: ${data.exercise_frequency}." ->
          <<<<"E", "x", "e", "r", "c", "i", "s", "e", ":", " ">>, <<".">>>>
   [] template = "Smoking status: ${data.smoking_status}." ->
          <<<<"S", "m", "o", "k", "i", "n", "g", " ", "s", "t", "a", "t", "u",
          "s", ":", " ">>, <<".">>>>
   [] template = "Alcohol intake: ${data.alcohol_consumption}." ->
          <<<<"A", "l", "c", "o", "h", "o", "l", " ", "i", "n", "t", "a", "k",
          "e", ":", " ">>, <<".">>>>
   [] template = "Family history includes cardiovascular or cancer risk." ->
          <<<<"F", "a", "m", "i", "l", "y", " ", "h", "i", "s", "t", "o", "r",
          "y", " ", "i", "n", "c", "l", "u", "d", "e", "s", " ", "c", "a", "r",
          "d", "i", "o", "v", "a", "s", "c", "u", "l", "a", "r", " ", "o", "r",
          " ", "c", "a", "n", "c", "e", "r", " ", "r", "i", "s", "k", ".">>>>
   [] template = "Reported: ${data.conditions}." ->
          <<<<"R", "e", "p", "o", "r", "t", "e", "d", ":", " ">>, <<".">>>>

\* The text of a detail: its template's pieces with its values in between.
Render(detail) ==
    LET pieces == Pieces(detail.template)
        from[k \in 0..Len(detail.values)] ==
            IF k = 0 THEN pieces[1]
            ELSE from[k - 1] \o detail.values[k] \o pieces[k + 1]
    IN  from[Len(detail.values)]

\* The text of the value that triggers the conditional insight of a title,
\* for the snapshot d.
TriggerText(title, d) ==
    LET text(value) == IF value.t = "number" THEN NumberToString(value.v) ELSE value.v
    IN  CASE title = "Body composition" -> text(computeBMI(d.height, d.weight))
          [] title = "Sleep hygiene" -> text(d.sleep_hours)
          [] title = "Heart rate" -> text(d.heart_rate)
          [] title = "Fever signal" -> text(d.temperature_c)
          [] title = "Oxygen saturation" -> text(d.spo2)
          [] title = "Current symptoms" -> text(d.symptoms_current)
          [] title = "Stress load" -> text(d.stress_level)
          [] title = "Activity level" -> text(d.exercise_frequency)
          [] title = "Tobacco risk" -> text(d.smoking_status)
          [] title = "Alcohol use" -> text(d.alcohol_consumption)
          [] title = "Family history flags" -> text(d.family_history)
          [] title = "Chronic conditions" -> text(d.conditions)

\* C22 as stated: the detail of every emitted insight other than 'Overall
\* status' contains the value of the field that triggered it, unchanged.
C22_DetailHoldsValue ==
    pc = "insights" =>
        \A i \in 1..Len(insights) :
            insights[i].title # "Overall status" =>
                Includes(Render(insights[i].detail),
                         TriggerText(insights[i].title, data))

\* 'very high'
T_very_high_spaced == <<"v", "e", "r", "y", " ", "h", "i", "g", "h">>

\* C22, amended: the detail of every emitted insight other than 'Overall
\* status' and 'Family history flags' contains the value of the field that
\* triggered it, unchanged except that 'Stress load' shows the stress level
\* 'very_high' as 'very high'.
C22_DetailHoldsValueOrSpaced ==
    pc = "insights" =>
        \A i \in 1..Len(insights) :
            insights[i].title \notin {"Overall status", "Family history flags"} =>
                LET value == TriggerText(insights[i].title, data)
                IN  Includes(Render(insights[i].detail),
                             IF insights[i].title = "Stress load" /\ value = T_very_high
                             THEN T_very_high_spaced ELSE value)

\* Every insight is emitted for a snapshot with the stress level 'very_high'
\* and a BMI of 32.9: the details 'BMI 32.9 (obese).' and 'Reported stress:
\* very high' are among them.
C22_Witness ==
    /\ pc = "insights"
    /\ Len(insights) = 13
    /\ data.stress_level = Str(T_very_high)
    /\ \E i \in 1..Len(insights) :
          /\ insights[i].title = "Body composition"
          /\ Render(insights[i].detail)
                = <<"B", "M", "I", " ", "3", "2", ".", "9", " ", "(", "o", "b", "e", "s", "e",
                    ")", ".">>
    /\ \E i \in 1..Len(insights) :
          /\ insights[i].title = "Stress load"
          /\ Includes(Render(insights[i].detail), T_very_high_spaced)

\* The insight of a title is in the list exactly when `emitted`, once, with
\* the severity 'high' when `high` and 'medium' otherwise.
Graded(list, title, emitted, high) ==
    LET at == WithTitle(list, title)
    IN  /\ at # {} <=> emitted
        /\ Cardinality(at) <= 1
        /\ \A i \in at : list[i].severity = IF high THEN "high" ELSE "medium"

\* C23: 'Sleep hygiene' is emitted iff sleep_hours is present and < 7, 'high'
\* iff sleep_hours < 6, which is exactly when summarizeStatus reports 'Low
\* sleep (<6h)', and 'medium' otherwise; 'Tobacco risk' is emitted iff
\* smoking_status is 'regular' or 'occasional', 'high' iff 'regular';
\* 'Alcohol use' is emitted iff alcohol_consumption is 'heavy' or 'moderate',
\* 'high' iff 'heavy'.
C23_GradedSeverity ==
    pc = "insights" =>
        LET sleep == data.sleep_hours
            low == Present(sleep) /\ NumLess(sleep.v, Int2Num(6))
        IN  /\ Graded(insights, "Sleep hygiene",
                      Present(sleep) /\ NumLess(sleep.v, Int2Num(7)), low)
            /\ low <=> Has(summarizeStatus(data).reasons, "Low sleep (<6h)")
            /\ Graded(insights, "Tobacco risk",
                      data.smoking_status \in {Str(T_regular), Str(T_occasional)},
                      data.smoking_status = Str(T_regular))
            /\ Graded(insights, "Alcohol use",
                      data.alcohol_consumption \in {Str(T_heavy), Str(T_moderate)},
                      data.alcohol_consumption = Str(T_heavy))

\* Six hours of sleep, a regular smoker and moderate alcohol: 'Sleep hygiene'
\* is 'medium', 'Tobacco risk' is 'high' and 'Alcohol use' is 'medium'.
C23_Witness ==
    /\ pc = "insights"
    /\ data.sleep_hours = N(6)
    /\ \E i \in WithTitle(insights, "Sleep hygiene") : insights[i].severity = "medium"
    /\ \E i \in WithTitle(insights, "Tobacco risk") : insights[i].severity = "high"
    /\ \E i \in WithTitle(insights, "Alcohol use") : insights[i].severity = "medium"

-----------------------------------------------------------------------------
(* buildRecommendations.                                                   *)

T_chest_pain == <<"c", "h", "e", "s", "t", " ", "p", "a", "i", "n">>
T_shortness_of_breath == <<"s", "h", "o", "r", "t", "n", "e", "s", "s", " ", "o", "f", " ", "b", "r", "e", "a", "t", "h">>
T_palpitations == <<"p", "a", "l", "p", "i", "t", "a", "t", "i", "o", "n", "s">>
T_cough == <<"c", "o", "u", "g", "h">>
T_wheez == <<"w", "h", "e", "e", "z">>
T_asthma == <<"a", "s", "t", "h", "m", "a">>
T_blood_sugar == <<"b", "l", "o", "o", "d", " ", "s", "u", "g", "a", "r">>
T_glucose == <<"g", "l", "u", "c", "o", "s", "e">>

Recommendation(specialty, title, reason, urgency) ==
    [specialty |-> specialty, title |-> title, reason |-> reason, urgency |-> urgency]

\* Mutant of add: an entry for a specialty already in the list replaces the
\* earlier one.
add_LastWins(list, rec) ==
    IF \E i \in 1..Len(list) : list[i].specialty = rec.specialty
    THEN [i \in 1..Len(list) |->
            IF list[i].specialty = rec.specialty THEN rec ELSE list[i]]
    ELSE Append(list, rec)

\* if (!recs.find((r) => r.specialty === rec.specialty)) recs.push(rec)
add(list, rec) ==
    IF \E i \in 1..Len(list) : list[i].specialty = rec.specialty
    THEN list
    ELSE Append(list, rec)

\* Array.prototype.slice(from, to) for 0 <= from <= to.
Slice(list, from, to) ==
    SubSeq(list, from + 1, IF to < Len(list) THEN to ELSE Len(list))

\* Mutant of SymptomsOf: symptoms_past is consulted before conditions.
SymptomsOf_PastFirst(d) ==
    Coalesce(Coalesce(Coalesce(d.symptoms_current, d.symptoms_past), d.conditions),
             Str(<<>>))

\* data.symptoms_current ?? data.conditions ?? data.symptoms_past ?? ''
SymptomsOf(d) ==
    Coalesce(Coalesce(Coalesce(d.symptoms_current, d.conditions), d.symptoms_past),
             Str(<<>>))

\* Mutant of Cardiology: palpitations count for the high urgency too.
Cardiology_PalpitationsHigh(list, d, symptoms) ==
    IF \/ hasKeyword(symptoms, <<T_chest_pain, T_shortness_of_breath, T_palpitations>>)
       \/ hasKeyword(d.family_history, <<T_heart, T_cardiac>>)
       \/ hasKeyword(d.conditions, <<T_hypertension>>)
    THEN add(list,
             Recommendation("Cardiology", "Cardiology consult",
                 "Cardio risk signals (symptoms or family history).",
                 IF hasKeyword(symptoms,
                               <<T_chest_pain, T_shortness_of_breath, T_palpitations>>)
                 THEN "high" ELSE "medium"))
    ELSE list

Cardiology(list, d, symptoms) ==
    IF \/ hasKeyword(symptoms, <<T_chest_pain, T_shortness_of_breath, T_palpitations>>)
       \/ hasKeyword(d.family_history, <<T_heart, T_cardiac>>)
       \/ hasKeyword(d.conditions, <<T_hypertension>>)
    THEN add(list,
             Recommendation("Cardiology", "Cardiology consult",
                 "Cardio risk signals (symptoms or family history).",
                 IF hasKeyword(symptoms, <<T_chest_pain, T_shortness_of_breath>>)
                 THEN "high" ELSE "medium"))
    ELSE list

Pulmonology(list, d, symptoms) ==
    IF \/ hasKeyword(symptoms, <<T_cough, T_wheez, T_asthma>>)
       \/ d.smoking_status = Str(T_regular)
    THEN add(list,
             Recommendation("Pulmonology", "Lung health review",
                 "Respiratory symptoms or smoking history.",
                 IF d.smoking_status = Str(T_regular) THEN "medium" ELSE "low"))
    ELSE list

Endocrinology(list, d, symptoms) ==
    IF \/ hasKeyword(symptoms, <<T_blood_sugar, T_glucose>>)
       \/ hasKeyword(d.conditions, <<T_diab>>)
    THEN add(list,
             Recommendation("Endocrinology", "Metabolic check",
                 "Metabolic flags (diabetes or glucose concerns).", "medium"))
    ELSE list

BehavioralHealth(list, d) ==
    IF d.stress_level = Str(T_high) \/ d.stress_level = Str(T_very_high)
    THEN add(list,
             Recommendation("Behavioral Health", "Stress & mood support",
                 "Elevated stress reported.", "medium"))
    ELSE list

\* Mutant of buildRecommendations: the lung rule is evaluated before the
\* heart rule.
buildRecommendations_LungFirst(d) ==
    LET symptoms == SymptomsOf(d)
        r1 == Pulmonology(<<>>, d, symptoms)
        r2 == Cardiology(r1, d, symptoms)
        r3 == Endocrinology(r2, d, symptoms)
        r4 == BehavioralHealth(r3, d)
    IN  Slice(r4, 0, 4)

buildRecommendations(d) ==
    LET symptoms == SymptomsOf(d)
        r1 == Cardiology(<<>>, d, symptoms)
        r2 == Pulmonology(r1, d, symptoms)
        r3 == Endocrinology(r2, d, symptoms)
        r4 == BehavioralHealth(r3, d)
    IN  Slice(r4, 0, 4)

-----------------------------------------------------------------------------
(* Driver of add() and the final slice: any entries are offered in any     *)
(* order, then the list is returned.                                       *)

\* The entries of the four rules, the heart and the lung rule's with either
\* urgency, and
\* an entry of a fifth specialty, as a longer rule set would offer.
Offered ==
    {Recommendation("Cardiology", "Cardiology consult",
         "Cardio risk signals (symptoms or family history).", "high"),
     Recommendation("Cardiology", "Cardiology consult",
         "Cardio risk signals (symptoms or family history).", "medium"),
     Recommendation("Pulmonology", "Lung health review",
         "Respiratory symptoms or smoking history.", "medium"),
     Recommendation("Pulmonology", "Lung health review",
         "Respiratory symptoms or smoking history.", "low"),
     Recommendation("Endocrinology", "Metabolic check",
         "Metabolic flags (diabetes or glucose concerns).", "medium"),
     Recommendation("Behavioral Health", "Stress & mood support",
         "Elevated stress reported.", "medium"),
     Recommendation("Primary Care", "General check-up", "No specific flags.", "low")}

InitAdd ==
    /\ pc = "adding"
    /\ offers = <<>>
    /\ recs = <<>>
    /\ raw = None /\ snapshot = None /\ again = None
    /\ heightCm = None /\ weightKg = None /\ bmi = None
    /\ data = None /\ status = None /\ insights = None
    /\ NoForm
    /\ NoOthers

\* add(rec)
Add(rec) ==
    /\ pc = "adding"
    /\ Len(offers) < MaxOffers
    /\ recs' = add(recs, rec)
    /\ offers' = Append(offers, rec)
    /\ UNCHANGED <<pc, raw, snapshot, again, heightCm, weightKg, bmi, data, status, insights, form, others>>

\* return recs.slice(0, 4)
Return ==
    /\ pc = "adding"
    /\ recs' = Slice(recs, 0, 4)
    /\ pc' = "returned"
    /\ UNCHANGED <<raw, snapshot, again, heightCm, weightKg, bmi, data, status, insights, offers, form, others>>

NextAdd == (\E rec \in Offered : Add(rec)) \/ Return

SpecAdd == InitAdd /\ [][NextAdd]_vars

-----------------------------------------------------------------------------
(* Properties of add() and the slice, checked under SpecAdd.               *)

\* The offers that are the first of their specialty.
FirstOffers ==
    {i \in 1..Len(offers) : \A j \in 1..(i - 1) : offers[j].specialty # offers[i].specialty}

\* The first offer of a specialty.
FirstOffer(specialty) ==
    CHOOSE i \in FirstOffers : offers[i].specialty = specialty

\* C14: the list holds at most 4 recommendations once returned and never two
\* of one specialty; an entry offered for a specialty already in the list is
\* dropped and the earlier entry kept unchanged; the result is the first 4
\* kept entries in the order they were offered.
C14_UniqueAndCapped ==
    pc \in {"adding", "returned"} =>
        /\ \A k, l \in 1..Len(recs) : recs[k].specialty = recs[l].specialty => k = l
        /\ \A k \in 1..Len(recs) :
              /\ \E i \in FirstOffers : offers[i] = recs[k]
              /\ \A l \in 1..(k - 1) :
                    FirstOffer(recs[l].specialty) < FirstOffer(recs[k].specialty)
              /\ Cardinality({i \in FirstOffers : i <= FirstOffer(recs[k].specialty)}) = k
        /\ pc = "adding" => Len(recs) = Cardinality(FirstOffers)
        /\ pc = "returned" =>
              /\ Len(recs) <= 4
              /\ Len(recs) = IF Cardinality(FirstOffers) < 4
                             THEN Cardinality(FirstOffers) ELSE 4

\* A returned list of 4 entries whose heart entry is the first one offered
\* ('high'), a later heart entry ('medium') having been dropped.
C14_Witness ==
    /\ pc = "returned"
    /\ Len(recs) = 4
    /\ \E i, j \in 1..Len(offers) :
          /\ i < j
          /\ offers[i].specialty = "Cardiology" /\ offers[i].urgency = "high"
          /\ offers[j].specialty = "Cardiology" /\ offers[j].urgency = "medium"
    /\ \E k \in 1..Len(recs) :
          recs[k].specialty = "Cardiology" /\ recs[k].urgency = "high"

-----------------------------------------------------------------------------
(* Driver of buildRecommendations: a profile's record is normalized, then  *)
(* its recommendations are built.                                          *)

\* A record of the fields buildRecommendations reads.
RecRecord(sy, co, sp, fh, sm, st) ==
    [symptoms_current |-> sy, conditions |-> co, symptoms_past |-> sp,
     family_history |-> fh, smoking_status |-> sm, stress_level |-> st]

\* Every combination of texts that hold each keyword, no keyword, or are
\* missing or blank, in each of the three sources of the symptom text and in
\* the other fields the rules read.
RecRecords ==
    {RecRecord(sy, co, sp, fh, sm, st) :
        sy \in {Undefined, Str(<<" ", " ">>), Str(T_chest_pain),
                Str(<<"S", "h", "o", "r", "t", "n", "e", "s", "s", " ", "o", "f", " ", "B", "r", "e", "a", "t", "h">>), Str(T_palpitations), Str(T_cough),
                Str(<<"w", "h", "e", "e", "z", "i", "n", "g">>), Str(<<"h", "i", "g", "h", " ", "b", "l", "o", "o", "d", " ", "s", "u", "g", "a", "r">>), Str(<<"h", "e", "a", "d", "a", "c", "h", "e">>)},
        co \in {Undefined, Str(T_hypertension), Str(<<"D", "i", "a", "b", "e", "t", "e", "s">>), Str(T_chest_pain),
                Str(T_asthma), Str(<<"a", "r", "t", "h", "r", "i", "t", "i", "s">>)},
        sp \in {Undefined, Str(T_chest_pain), Str(T_cough), Str(T_glucose),
                Str(T_palpitations)},
        fh \in {Undefined, Str(<<"h", "e", "a", "r", "t", " ", "d", "i", "s", "e", "a", "s", "e">>), Str(<<"C", "a", "r", "d", "i", "a", "c", " ", "a", "r", "r", "e", "s", "t">>), Str(T_stroke)},
        sm \in {Undefined, Str(T_regular), Str(T_occasional)},
        st \in {Undefined, Str(T_very_high), Str(T_moderate)}}
    \cup {TestInsightRecord}

InitRecs ==
    /\ pc = "profile"
    /\ data \in {normalizeOnboardingData(Record(r)) : r \in RecRecords}
    /\ recs = None
    /\ raw = None /\ snapshot = None /\ again = None
    /\ heightCm = None /\ weightKg = None /\ bmi = None
    /\ status = None /\ insights = None /\ offers = None
    /\ NoForm
    /\ NoOthers

\* const recs = buildRecommendations(data)
BuildRecommendations ==
    /\ pc = "profile"
    /\ recs' = buildRecommendations(data)
    /\ pc' = "recommended"
    /\ UNCHANGED <<raw, snapshot, again, heightCm, weightKg, bmi, data, status, insights, offers, form, others>>

NextRecs == BuildRecommendations

SpecRecs == InitRecs /\ [][NextRecs]_vars

-----------------------------------------------------------------------------
(* Properties of buildRecommendations, checked under SpecRecs.             *)

\* The first of symptoms_current, conditions and symptoms_past that is
\* present, and the empty text when none is.
SymptomText(d) ==
    IF Present(d.symptoms_current) THEN d.symptoms_current
    ELSE IF Present(d.conditions) THEN d.conditions
    ELSE IF Present(d.symptoms_past) THEN d.symptoms_past
    ELSE Str(<<>>)

ContainsAny(x, kws) == \E kw \in kws : ContainsCI(x, kw)

CardiacPhrases == {T_chest_pain, T_shortness_of_breath, T_palpitations}

\* The rules in their order: each one's specialty and whether its trigger
\* holds for the snapshot d.
RuleTable(d) ==
    <<[specialty |-> "Cardiology",
       holds |-> \/ ContainsAny(SymptomText(d), CardiacPhrases)
                 \/ ContainsAny(d.family_history, {T_heart, T_cardiac})
                 \/ ContainsAny(d.conditions, {T_hypertension})],
      [specialty |-> "Pulmonology",
       holds |-> \/ ContainsAny(SymptomText(d), {T_cough, T_wheez, T_asthma})
                 \/ d.smoking_status = Str(T_regular)],
      [specialty |-> "Endocrinology",
       holds |-> \/ ContainsAny(SymptomText(d), {T_blood_sugar, T_glucose})
                 \/ ContainsAny(d.conditions, {T_diab})],
      [specialty |-> "Behavioral Health",
       holds |-> d.stress_level \in {Str(T_high), Str(T_very_high)}]>>

Specialties(list) == [i \in 1..Len(list) |-> list[i].specialty]

HasSpecialty(list, specialty) == \E i \in 1..Len(list) : list[i].specialty = specialty

\* C15: buildRecommendations' result is exactly the list of the rules whose
\* trigger holds, in the order Cardiology, Pulmonology, Endocrinology,
\* Behavioral Health; every specialty is one of these four, never 'Primary
\* Care'; and Cardiology is present whenever the symptom text contains
\* 'chest pain', 'shortness of breath' or 'palpitations', family_history
\* contains 'heart' or 'cardiac', or conditions contains 'hypertension'.
C15_TriggeredRulesInOrder ==
    pc = "recommended" =>
        /\ Specialties(recs) = Specialties(SelectSeq(RuleTable(data), RowHolds))
        /\ \A i \in 1..Len(recs) :
              recs[i].specialty \in {"Cardiology", "Pulmonology", "Endocrinology",
                                     "Behavioral Health"}
        /\ ~HasSpecialty(recs, "Primary Care")
        /\ Len(recs) <= 4
        /\ \A i, j \in 1..Len(recs) : recs[i].specialty = recs[j].specialty => i = j
        /\ ContainsAny(SymptomText(data), CardiacPhrases) => HasSpecialty(recs, "Cardiology")
        /\ ContainsAny(data.family_history, {T_heart, T_cardiac}) =>
              HasSpecialty(recs, "Cardiology")
        /\ ContainsAny(data.conditions, {T_hypertension}) => HasSpecialty(recs, "Cardiology")

\* All four rules fire, the lung rule by a symptom and the heart rule by the
\* family history alone.
C15_Witness ==
    /\ pc = "recommended"
    /\ Specialties(recs) = <<"Cardiology", "Pulmonology", "Endocrinology", "Behavioral Health">>
    /\ data.symptoms_current = Str(T_cough)
    /\ data.conditions = Str(<<"D", "i", "a", "b", "e", "t", "e", "s">>)
    /\ data.family_history = Str(<<"C", "a", "r", "d", "i", "a", "c", " ", "a", "r", "r", "e", "s", "t">>)

SymptomKeywords ==
    CardiacPhrases \cup {T_cough, T_wheez, T_asthma} \cup {T_blood_sugar, T_glucose}

\* C16: the symptom text of buildRecommendations is symptoms_current when
\* present, otherwise conditions when present, otherwise symptoms_past when
\* present, otherwise the empty string: where no other field triggers a
\* rule, the rule fires exactly when that one text holds one of its
\* keywords, so a keyword in a later source triggers nothing (symptoms_past
\* with 'chest pain' gives no Cardiology when symptoms_current is present
\* without a cardiac phrase).
C16_SymptomTextFallback ==
    pc = "recommended" =>
        LET text == SymptomText(data)
            heartElsewhere ==
                \/ ContainsAny(data.family_history, {T_heart, T_cardiac})
                \/ ContainsAny(data.conditions, {T_hypertension})
        IN  /\ ~heartElsewhere =>
                  (HasSpecialty(recs, "Cardiology") <=> ContainsAny(text, CardiacPhrases))
            /\ data.smoking_status # Str(T_regular) =>
                  (HasSpecialty(recs, "Pulmonology")
                      <=> ContainsAny(text, {T_cough, T_wheez, T_asthma}))
            /\ ~ContainsAny(data.conditions, {T_diab}) =>
                  (HasSpecialty(recs, "Endocrinology")
                      <=> ContainsAny(text, {T_blood_sugar, T_glucose}))
            /\ (/\ Present(data.symptoms_current)
                /\ ~ContainsAny(data.symptoms_current, CardiacPhrases)
                /\ ContainsAny(data.symptoms_past, {T_chest_pain})
                /\ ~heartElsewhere) => ~HasSpecialty(recs, "Cardiology")
            /\ (~ContainsAny(text, SymptomKeywords) /\ ~heartElsewhere
                /\ data.smoking_status # Str(T_regular)
                /\ ~ContainsAny(data.conditions, {T_diab})) =>
                  \A i \in 1..Len(recs) : recs[i].specialty = "Behavioral Health"

\* symptoms_current ('headache') holds no keyword and symptoms_past holds
\* 'chest pain': no recommendation comes of it.
C16_Witness ==
    /\ pc = "recommended"
    /\ data.symptoms_current = Str(<<"h", "e", "a", "d", "a", "c", "h", "e">>)
    /\ data.conditions = Undefined
    /\ data.symptoms_past = Str(T_chest_pain)
    /\ data.family_history = Undefined
    /\ recs = <<>>

UrgencyOf(list, specialty) ==
    {list[i].urgency : i \in {k \in 1..Len(list) : list[k].specialty = specialty}}

\* C17: a Cardiology entry has the urgency 'high' iff the symptom text
\* contains 'chest pain' or 'shortness of breath' and 'medium' otherwise; a
\* Pulmonology entry has 'medium' iff smoking_status is 'regular' and 'low'
\* otherwise; Endocrinology and Behavioral Health entries have 'medium'.
C17_Urgency ==
    pc = "recommended" =>
        \A i \in 1..Len(recs) :
            LET rec == recs[i]
                urgent == ContainsAny(SymptomText(data),
                                      {T_chest_pain, T_shortness_of_breath})
            IN  /\ rec.specialty = "Cardiology" =>
                      /\ rec.urgency = "high" <=> urgent
                      /\ rec.urgency = "medium" <=> ~urgent
                /\ rec.specialty = "Pulmonology" =>
                      /\ rec.urgency = "medium" <=> data.smoking_status = Str(T_regular)
                      /\ rec.urgency = "low" <=> data.smoking_status # Str(T_regular)
                /\ rec.specialty \in {"Endocrinology", "Behavioral Health"} =>
                      rec.urgency = "medium"

\* Palpitations alone give Cardiology 'medium', and a regular smoker gets
\* Pulmonology 'medium'.
C17_Witness ==
    /\ pc = "recommended"
    /\ data.symptoms_current = Str(T_palpitations)
    /\ data.smoking_status = Str(T_regular)
    /\ UrgencyOf(recs, "Cardiology") = {"medium"}
    /\ UrgencyOf(recs, "Pulmonology") = {"medium"}
    /\ UrgencyOf(recs, "Behavioral Health") = {"medium"}

-----------------------------------------------------------------------------
(* Driver of hasKeyword: the texts are absent, empty, keywords in lower,    *)
(* upper and mixed case, keywords inside longer words, and near misses;     *)
(* the keyword lists are those of the calls in summarizeStatus,             *)
(* buildInsights and buildRecommendations.                                  *)

KeywordTexts ==
    {Undefined,
     Str(<<>>),
     Str(<<" ">>),
     Str(<<"b", "p">>),
     Str(<<"B", "P">>),
     Str(<<"s", "u", "b", "p", "a", "r">>),
     Str(<<"t", "b", " ", "p">>),
     Str(<<"h", "e", "a", "r", "t">>),
     Str(<<"H", "E", "A", "R", "T">>),
     Str(<<"H", "e", "a", "r", "t", " ", "d", "i", "s", "e", "a", "s", "e">>),
     Str(<<"h", "e", "a", "r">>),
     Str(<<"x", "h", "e", "a", "r", "t", "x">>),
     Str(<<"C", "a", "r", "d", "i", "a", "c", " ", "a", "r", "r", "e", "s", "t">>),
     Str(<<"S", "t", "r", "o", "k", "e">>),
     Str(<<"b", "r", "e", "a", "s", "t", " ", "c", "a", "n", "c", "e", "r">>),
     Str(<<"C", "h", "e", "s", "t", " ", "P", "a", "i", "n">>),
     Str(<<"c", "h", "e", "s", "t", " ", " ", "p", "a", "i", "n">>),
     Str(<<"s", "h", "o", "r", "t", "n", "e", "s", "s", " ", "o", "f", " ", "b", "r", "e", "a", "t", "h">>),
     Str(<<"P", "a", "l", "p", "i", "t", "a", "t", "i", "o", "n", "s">>),
     Str(<<"w", "h", "e", "e", "z", "i", "n", "g">>),
     Str(<<"A", "S", "T", "H", "M", "A">>),
     Str(<<"D", "r", "y", " ", "C", "o", "u", "g", "h">>),
     Str(<<"p", "r", "e", "-", "d", "i", "a", "b", "e", "t", "i", "c">>),
     Str(<<"D", "i", "a", "b", "e", "t", "e", "s">>),
     Str(<<"h", "i", "g", "h", " ", "B", "l", "o", "o", "d", " ", "P", "r", "e", "s", "s", "u", "r", "e">>),
     Str(<<"H", "y", "p", "e", "r", "t", "e", "n", "s", "i", "o", "n">>),
     Str(<<"h", "y", "p", "e", "r", " ", "t", "e", "n", "s", "i", "o", "n">>),
     Str(<<"g", "l", "u", "c", "o", "s", "e">>),
     Str(<<"B", "l", "o", "o", "d", " ", "s", "u", "g", "a", "r">>)}

\* The keyword arrays passed to hasKeyword.
KeywordLists ==
    {<<T_heart, T_cardiac, T_stroke>>, <<T_diab, T_hypertension, T_bp, T_blood_pressure>>,
     <<T_heart, T_stroke, T_cancer>>,
     <<T_chest_pain, T_shortness_of_breath, T_palpitations>>, <<T_heart, T_cardiac>>,
     <<T_hypertension>>, <<T_chest_pain, T_shortness_of_breath>>,
     <<T_cough, T_wheez, T_asthma>>, <<T_blood_sugar, T_glucose>>, <<T_diab>>}

InitKeyword ==
    /\ pc = "text"
    /\ kwText \in KeywordTexts
    /\ kwList \in KeywordLists
    /\ kwMatched = None
    /\ NoEngine
    /\ NoForm
    /\ NoVoice
    /\ NoChat

\* hasKeyword(text, keywords)
HasKeyword ==
    /\ pc = "text"
    /\ kwMatched' = hasKeyword(kwText, kwList)
    /\ pc' = "matched"
    /\ UNCHANGED <<kwText, kwList, engine, form, voice, chat>>

NextKeyword == HasKeyword

SpecKeyword == InitKeyword /\ [][NextKeyword]_vars

\* C24: keyword matching is case-insensitive substring search: a keyword
\* matches a text field iff the field, whatever the case of its letters,
\* contains the keyword anywhere, with no word-boundary check, and an absent
\* field matches no keyword.
C24_CaseInsensitiveSubstring ==
    pc = "matched" =>
        /\ kwMatched <=> \E k \in 1..Len(kwList) : ContainsCI(kwText, kwList[k])
        /\ kwText = Undefined => ~kwMatched

\* 'bp' has matched inside the unrelated word 'subpar'.
C24_Witness ==
    /\ pc = "matched"
    /\ kwText = Str(<<"s", "u", "b", "p", "a", "r">>)
    /\ kwList = <<T_diab, T_hypertension, T_bp, T_blood_pressure>>
    /\ kwMatched = TRUE

-----------------------------------------------------------------------------
(* The dashboard's pipeline on raw records without content: normalize,      *)
(* then summarizeStatus, buildInsights and buildRecommendations.            *)

\* What a field without content holds: null, the empty string, white space.
BlankValues == <<Null, Str(<<>>), Str(<<" ">>), Str(<<" ", " ">>)>>

\* The record with every declared field set to value.
Filled(value) == [f \in DeclaredFields |-> value]

\* Raw records in which every declared field is missing, null, or an empty
\* or whitespace-only string: all fields alike, and one field unlike the
\* others.
BlankRecords ==
    {Record(EmptyRecord)}
        \cup {Record(Filled(BlankValues[i])) : i \in 1..Len(BlankValues)}
        \cup {Record(With(EmptyRecord, f, BlankValues[i])) :
                f \in DeclaredFields, i \in 1..Len(BlankValues)}
        \cup {Record(With(Filled(Null), f, BlankValues[i])) :
                f \in DeclaredFields, i \in 1..Len(BlankValues)}

InitDashboard ==
    /\ pc = "onboarding"
    /\ raw \in BlankRecords
    /\ data = None /\ status = None /\ insights = None /\ recs = None
    /\ snapshot = None /\ again = None
    /\ heightCm = None /\ weightKg = None /\ bmi = None /\ offers = None
    /\ NoForm
    /\ NoOthers

\* const data = normalizeOnboardingData(onboarding)
DashboardData ==
    /\ pc = "onboarding"
    /\ data' = normalizeOnboardingData(raw)
    /\ pc' = "data"
    /\ UNCHANGED <<raw, snapshot, again, heightCm, weightKg, bmi, status, insights, offers,
                   recs, form, others>>

\* const status = summarizeStatus(data)
DashboardStatus ==
    /\ pc = "data"
    /\ status' = summarizeStatus(data)
    /\ pc' = "status"
    /\ UNCHANGED <<raw, snapshot, again, heightCm, weightKg, bmi, data, insights, offers,
                   recs, form, others>>

\* const insights = buildInsights(data)
DashboardInsights ==
    /\ pc = "status"
    /\ insights' = buildInsights(data)
    /\ pc' = "insights built"
    /\ UNCHANGED <<raw, snapshot, again, heightCm, weightKg, bmi, data, status, offers,
                   recs, form, others>>

\* const recs = buildRecommendations(data)
DashboardRecommendations ==
    /\ pc = "insights built"
    /\ recs' = buildRecommendations(data)
    /\ pc' = "dashboard"
    /\ UNCHANGED <<raw, snapshot, again, heightCm, weightKg, bmi, data, status, insights,
                   offers, form, others>>

NextDashboard ==
    \/ DashboardData
    \/ DashboardStatus
    \/ DashboardInsights
    \/ DashboardRecommendations

SpecDashboard == InitDashboard /\ [][NextDashboard]_vars

\* C25: a raw record in which every declared field is missing, null, or an
\* empty or whitespace-only string triggers nothing downstream: the status
\* has level 'good', no reasons and no BMI, the insights are the 'Overall
\* status' insight with severity 'low' alone, and there are no
\* recommendations.
C25_BlankRecordTriggersNothing ==
    pc = "dashboard" =>
        /\ status.level = "good"
        /\ status.reasons = <<>>
        /\ status.bmi = Null
        /\ Len(insights) = 1
        /\ insights[1].title = "Overall status"
        /\ insights[1].severity = "low"
        /\ recs = <<>>

-----------------------------------------------------------------------------
(* HealthQuestionnaire (components/MultiStepOnboarding).  The state is the  *)
(* rendered state: an event handler reads the data and the step of the     *)
(* last render, and a handleSubmit run suspended at an await keeps the     *)
(* data and the step of the render that created it.  The `disabled` prop   *)
(* is false, which leaves every control enabled.                           *)

STEPS == <<"Essentials", "Medical history", "Symptoms & location">>

\* currentStep === STEPS.length - 1
isLastStep(step) == step = Len(STEPS) - 1

\* 'Full name is required'
T_name_required ==
    <<"F", "u", "l", "l", " ", "n", "a", "m", "e", " ", "i", "s", " ", "r",
      "e", "q", "u", "i", "r", "e", "d">>

\* 'Please describe your current symptoms'
T_symptoms_required ==
    <<"P", "l", "e", "a", "s", "e", " ", "d", "e", "s", "c", "r", "i", "b",
      "e", " ", "y", "o", "u", "r", " ", "c", "u", "r", "r", "e", "n", "t",
      " ", "s", "y", "m", "p", "t", "o", "m", "s">>

\* The message of an error onSubmit throws.
T_err_message == <<"R", "e", "q", "u", "e", "s", "t", " ", "f", "a", "i", "l", "e", "d">>

\* setData((prev) => ({ ...prev, ...updates })) for one updated key.
updateData(prev, key, value) == [prev EXCEPT ![key] = value]

\* value?.trim()
OptionalTrim(value) ==
    IF value.t \in {"undefined", "null"} THEN Undefined ELSE Str(Trim(value.v))

\* Mutant of validateStep: the name is tested without trim().
validateStep_NoTrim(stepIndex, d) ==
    IF stepIndex = 0 /\ ~Truthy(d.full_name) THEN Str(T_name_required)
    ELSE IF stepIndex = 2 /\ ~Truthy(OptionalTrim(d.symptoms_current))
         THEN Str(T_symptoms_required)
    ELSE Null

validateStep(stepIndex, d) ==
    IF stepIndex = 0 /\ ~Truthy(Str(Trim(d.full_name.v)))
    THEN Str(T_name_required)
    ELSE IF stepIndex = 2 /\ ~Truthy(OptionalTrim(d.symptoms_current))
         THEN Str(T_symptoms_required)
    ELSE Null

\* Mutant of PayloadOf: the data are passed on as entered.
PayloadOf_AsEntered(d) == d


\* The payload handleSubmit builds from the data d.
PayloadOf(d) ==
    [d EXCEPT !.full_name = Str(Trim(d.full_name.v)),
              !.symptoms_current = Str(Trim(d.symptoms_current.v)),
              !.location = IF Truthy(OptionalTrim(d.location))
                           THEN OptionalTrim(d.location) ELSE Undefined]

\* Mutant of Validated: the symptoms are tested without trim().
Validated_SymptomsUntrimmed(step, d) ==
    IF ~Truthy(Str(Trim(d.full_name.v)))
    THEN [error |-> Str(T_name_required), call |-> FALSE]
    ELSE IF ~Truthy(d.symptoms_current)
         THEN [error |-> Str(T_symptoms_required), call |-> FALSE]
    ELSE [error |-> Null, call |-> TRUE]

\* What handleSubmit does from its validation on, with the data d and the
\* step of its render: the error it sets, and the payload it hands to
\* onSubmit (none when it returns early).
Validated(step, d) ==
    LET validationError == validateStep(step, d)
    IN  IF Truthy(validationError) THEN [error |-> validationError, call |-> FALSE]
        ELSE IF ~Truthy(Str(Trim(d.full_name.v)))
             THEN [error |-> Str(T_name_required), call |-> FALSE]
        ELSE IF ~Truthy(OptionalTrim(d.symptoms_current))
             THEN [error |-> Str(T_symptoms_required),
                   call |-> FALSE]
        ELSE [error |-> Null, call |-> TRUE]

\* A handleSubmit run suspended at an await before its validation: where,
\* and the data and step of its render.
Suspended(at, d, step) == [at |-> at, data |-> d, currentStep |-> step]

\* A handleSubmit run suspended at `await onSubmit(payload)`.
AwaitingOnSubmit == [at |-> "onSubmit"]

\* A call of onSubmit: the payload, and the step of the render whose submit
\* event led to it.
Call(payload, step) == [payload |-> payload, step |-> step]

Remove(seq, i) == SubSeq(seq, 1, i - 1) \o SubSeq(seq, i + 1, Len(seq))

\* The texts typed into the name, medical history, symptoms and location
\* fields, and the chief complaints a voice summary brings.
NameTexts == {<<>>, <<" ", " ">>, <<"J", "a", "n", "e">>, <<" ", "J", "a", "n", "e", " ">>}
HistoryTexts == {<<>>, <<"a", "s", "t", "h", "m", "a">>}
SymptomTexts == {<<>>, <<" ">>, <<" ", "c", "o", "u", "g", "h">>}
LocationTexts == {<<>>, <<" ">>, <<"P", "u", "n", "e", " ">>}
ChiefComplaints == {<<>>, <<"f", "e", "v", "e", "r">>}

\* useState(0), useState({ full_name: '' }), useState(null), useState(false),
\* useRef(null), useRef(false)
InitQuestionnaire ==
    /\ pc = "questionnaire"
    /\ currentStep = 0
    /\ formData = [full_name |-> Str(<<>>), medical_history |-> Undefined,
                   symptoms_current |-> Undefined, location |-> Undefined]
    /\ error = Null
    /\ isGeneratingSummary = FALSE
    /\ hasVoiceInputRef = FALSE
    /\ voiceGenerateSummaryRef = FALSE
    /\ pending = <<>>
    /\ onSubmitCall = None
    /\ NoEngine
    /\ NoOthers

\* StepIntro: onChange of the full name.
ChangeFullName(value) ==
    /\ currentStep = 0
    /\ formData' = updateData(formData, "full_name", Str(value))
    /\ UNCHANGED <<pc, engine, others, currentStep, error, isGeneratingSummary, hasVoiceInputRef,
                   voiceGenerateSummaryRef, pending>>
    /\ onSubmitCall' = None

\* StepMedical: onChange of the medical history.
ChangeMedicalHistory(value) ==
    /\ currentStep = 1
    /\ ~isGeneratingSummary
    /\ formData' = updateData(formData, "medical_history", OrUndefined(value))
    /\ UNCHANGED <<pc, engine, others, currentStep, error, isGeneratingSummary, hasVoiceInputRef,
                   voiceGenerateSummaryRef, pending>>
    /\ onSubmitCall' = None

\* StepSymptoms: onChange of the current symptoms.
ChangeSymptoms(value) ==
    /\ currentStep = 2
    /\ ~isGeneratingSummary
    /\ formData' = updateData(formData, "symptoms_current", OrUndefined(value))
    /\ UNCHANGED <<pc, engine, others, currentStep, error, isGeneratingSummary, hasVoiceInputRef,
                   voiceGenerateSummaryRef, pending>>
    /\ onSubmitCall' = None

\* StepSymptoms: onChange of the location.
ChangeLocation(value) ==
    /\ currentStep = 2
    /\ ~isGeneratingSummary
    /\ formData' = updateData(formData, "location", OrUndefined(value))
    /\ UNCHANGED <<pc, engine, others, currentStep, error, isGeneratingSummary, hasVoiceInputRef,
                   voiceGenerateSummaryRef, pending>>
    /\ onSubmitCall' = None

\* StepSymptoms' effect in voice mode: handleVoiceStateChange(hasInput,
\* generateSummaryIfNeeded).
VoiceStateChange(hasInput) ==
    /\ currentStep = 2
    /\ hasVoiceInputRef' = hasInput
    /\ voiceGenerateSummaryRef' = TRUE
    /\ UNCHANGED <<pc, engine, others, currentStep, formData, error, isGeneratingSummary, pending>>
    /\ onSubmitCall' = None

\* A voice conversation that completes generates its summary:
\* updateData({ symptoms_current: data.summary.chief_complaint }).
VoiceSummary(chief) ==
    /\ hasVoiceInputRef
    /\ formData' = updateData(formData, "symptoms_current", Str(chief))
    /\ UNCHANGED <<pc, engine, others, currentStep, error, isGeneratingSummary, hasVoiceInputRef,
                   voiceGenerateSummaryRef, pending>>
    /\ onSubmitCall' = None

\* Continue
handleNext ==
    /\ ~isLastStep(currentStep)
    /\ LET validationError == validateStep(currentStep, formData)
       IN  IF Truthy(validationError)
           THEN error' = validationError /\ UNCHANGED currentStep
           ELSE /\ error' = Null
                /\ currentStep' = IF currentStep + 1 < Len(STEPS) - 1
                                  THEN currentStep + 1 ELSE Len(STEPS) - 1
    /\ UNCHANGED <<pc, engine, others, formData, isGeneratingSummary, hasVoiceInputRef,
                   voiceGenerateSummaryRef, pending>>
    /\ onSubmitCall' = None

\* Back
handleBack ==
    /\ currentStep # 0
    /\ error' = Null
    /\ currentStep' = IF currentStep - 1 > 0 THEN currentStep - 1 ELSE 0
    /\ UNCHANGED <<pc, engine, others, formData, isGeneratingSummary, hasVoiceInputRef,
                   voiceGenerateSummaryRef, pending>>
    /\ onSubmitCall' = None

\* The end of a handleSubmit run of the render with data d and the given
\* step, the runs rest staying suspended: validation, then onSubmit(payload).
Finish(step, d, rest) ==
    LET v == Validated(step, d)
    IN  /\ error' = v.error
        /\ IF v.call
           THEN /\ onSubmitCall' = Call(PayloadOf(d), step)
                /\ pending' = Append(rest, AwaitingOnSubmit)
           ELSE /\ pending' = rest
                /\ onSubmitCall' = None

\* Mutant of handleSubmit: no test of the step before the rest.
handleSubmit_AnyStep ==
    /\ Len(pending) < MaxPending
    /\ IF /\ hasVoiceInputRef /\ voiceGenerateSummaryRef
          /\ ~Truthy(OptionalTrim(formData.symptoms_current))
       THEN /\ isGeneratingSummary' = TRUE
            /\ pending' = Append(pending, Suspended("summary", formData, currentStep))
            /\ onSubmitCall' = None
            /\ UNCHANGED error
       ELSE /\ Finish(currentStep, formData, pending)
            /\ UNCHANGED isGeneratingSummary
    /\ UNCHANGED <<pc, engine, others, currentStep, formData, hasVoiceInputRef,
                   voiceGenerateSummaryRef>>

\* The form's submit event, up to the first await.
handleSubmit ==
    /\ Len(pending) < MaxPending
    /\ IF ~isLastStep(currentStep)
       THEN onSubmitCall' = None /\ UNCHANGED <<error, isGeneratingSummary, pending>>
       ELSE IF /\ hasVoiceInputRef /\ voiceGenerateSummaryRef
               /\ ~Truthy(OptionalTrim(formData.symptoms_current))
            THEN /\ isGeneratingSummary' = TRUE
                 /\ pending' = Append(pending, Suspended("summary", formData, currentStep))
                 /\ onSubmitCall' = None
            /\ UNCHANGED error
       ELSE /\ Finish(currentStep, formData, pending)
            /\ UNCHANGED isGeneratingSummary
    /\ UNCHANGED <<pc, engine, others, currentStep, formData, hasVoiceInputRef,
                   voiceGenerateSummaryRef>>

\* await voiceGenerateSummaryRef.current() returns: the generator has set the
\* symptoms to the summary's chief complaint, or has done nothing (a summary
\* exists, no message, the request failed).
SummaryGenerated(i, outcome) ==
    /\ i \in 1..Len(pending)
    /\ pending[i].at = "summary"
    /\ formData' = IF outcome = Undefined THEN formData
                   ELSE updateData(formData, "symptoms_current", outcome)
    /\ pending' = [pending EXCEPT ![i].at = "timeout"]
    /\ UNCHANGED <<pc, engine, others, currentStep, error, isGeneratingSummary, hasVoiceInputRef,
                   voiceGenerateSummaryRef>>
    /\ onSubmitCall' = None

\* The 500 ms wait ends: setIsGeneratingSummary(false), then the rest of the
\* run with the data and step of its render.
WaitElapsed(i) ==
    /\ i \in 1..Len(pending)
    /\ pending[i].at = "timeout"
    /\ isGeneratingSummary' = FALSE
    /\ Finish(pending[i].currentStep, pending[i].data, Remove(pending, i))
    /\ UNCHANGED <<pc, engine, others, currentStep, formData, hasVoiceInputRef,
                   voiceGenerateSummaryRef>>

\* await onSubmit(payload) returns or throws.
OnSubmitSettled(i, failed) ==
    /\ i \in 1..Len(pending)
    /\ pending[i].at = "onSubmit"
    /\ pending' = Remove(pending, i)
    /\ error' = IF failed THEN Str(T_err_message) ELSE error
    /\ UNCHANGED <<pc, engine, others, currentStep, formData, isGeneratingSummary,
                   hasVoiceInputRef, voiceGenerateSummaryRef>>
    /\ onSubmitCall' = None

NextQuestionnaire ==
    \/ \E value \in NameTexts : ChangeFullName(value)
    \/ \E value \in HistoryTexts : ChangeMedicalHistory(value)
    \/ \E value \in SymptomTexts : ChangeSymptoms(value)
    \/ \E value \in LocationTexts : ChangeLocation(value)
    \/ \E hasInput \in BOOLEAN : VoiceStateChange(hasInput)
    \/ \E chief \in ChiefComplaints : VoiceSummary(chief)
    \/ handleNext
    \/ handleBack
    \/ handleSubmit
    \/ \E i \in 1..MaxPending, chief \in ChiefComplaints :
          SummaryGenerated(i, Str(chief))
    \/ \E i \in 1..MaxPending : SummaryGenerated(i, Undefined)
    \/ \E i \in 1..MaxPending : WaitElapsed(i)
    \/ \E i \in 1..MaxPending, failed \in BOOLEAN : OnSubmitSettled(i, failed)

SpecQuestionnaire == InitQuestionnaire /\ [][NextQuestionnaire]_vars

-----------------------------------------------------------------------------
(* Properties of the questionnaire.                                         *)

\* C18: onSubmit is never called while the entered full name is empty or
\* whitespace-only, and never from a submit event raised while the current
\* step is not the last step: whenever a step calls onSubmit, the name in
\* the form and the name in the payload are non-blank and the render whose
\* submit event led to the call showed the last step.
C18_NoCallWithoutNameOrOffLastStep ==
    onSubmitCall # None =>
        /\ ~Blank(formData.full_name.v)
        /\ onSubmitCall.payload.full_name.v # <<>>
        /\ isLastStep(onSubmitCall.step)

\* onSubmit has just been called with the name ' Jane ' in the form, trimmed
\* in the payload.
C18_Witness ==
    /\ onSubmitCall # None
    /\ formData.full_name = Str(<<" ", "J", "a", "n", "e", " ">>)
    /\ onSubmitCall.payload.full_name = Str(<<"J", "a", "n", "e">>)

\* C19: the questionnaire cannot leave step 1 (index 0) without a name: a
\* step past the first is shown only while the name is non-blank, and
\* Continue on the first step with a blank name stays on it and sets the
\* error 'Full name is required', however often it is clicked.
C19_NameBeforeLeavingFirstStep ==
    /\ [](currentStep >= 1 => ~Blank(formData.full_name.v))
    /\ [][(handleNext /\ currentStep = 0 /\ Blank(formData.full_name.v))
            => (currentStep' = 0 /\ error' = Str(T_name_required))]_vars

\* Continue has been refused on the first step for a name of blanks only.
C19_Witness ==
    /\ currentStep = 0
    /\ formData.full_name = Str(<<" ", " ">>)
    /\ error = Str(T_name_required)

\* A step of a submit leaves the form alone: no call of onSubmit, the step
\* and the collected data as they were.
Quiet ==
    /\ onSubmitCall' = None
    /\ currentStep' = currentStep
    /\ formData' = formData

\* The submit event is raised on the last step while symptoms_current is
\* absent or whitespace-only.
SubmitWithoutSymptoms ==
    /\ handleSubmit
    /\ isLastStep(currentStep)
    /\ ~Truthy(OptionalTrim(formData.symptoms_current))

\* handleSubmit generates the voice summary before it validates.
GeneratesSummary == hasVoiceInputRef /\ voiceGenerateSummaryRef

IsPayloadFor(payload, d) ==
    /\ DOMAIN payload = DOMAIN d
    /\ payload.full_name.t = "string"
    /\ IsTrimOf(payload.full_name.v, d.full_name.v)
    /\ payload.symptoms_current.t = "string"
    /\ IsTrimOf(payload.symptoms_current.v, d.symptoms_current.v)
    /\ payload.medical_history = d.medical_history
    /\ IF d.location.t = "string" /\ ~Blank(d.location.v)
       THEN /\ payload.location.t = "string"
            /\ IsTrimOf(payload.location.v, d.location.v)
       ELSE payload.location = Undefined

\* C21: data entered on any step is kept across Continue and Back, and a
\* submit on the last step with non-blank name and symptoms calls onSubmit
\* exactly once (one call, one run left awaiting it) with a payload that
\* holds every collected field, full_name and symptoms_current trimmed and
\* location trimmed or absent.
C21_DataKeptAndSubmitted ==
    [][/\ (handleNext \/ handleBack) => formData' = formData
       /\ (/\ handleSubmit
           /\ isLastStep(currentStep)
           /\ ~Blank(formData.full_name.v)
           /\ formData.symptoms_current.t = "string"
           /\ ~Blank(formData.symptoms_current.v))
          => /\ onSubmitCall' # None
             /\ IsPayloadFor(onSubmitCall'.payload, formData)
             /\ pending' = Append(pending, AwaitingOnSubmit)
             /\ formData' = formData]_vars

\* onSubmit has just been called with data of all three steps: the medical
\* history of step 2, the symptoms ' cough' and the location 'Pune ' of
\* step 3 trimmed.
C21_Witness ==
    /\ onSubmitCall # None
    /\ formData.full_name = Str(<<" ", "J", "a", "n", "e", " ">>)
    /\ onSubmitCall.payload.medical_history = Str(<<"a", "s", "t", "h", "m", "a">>)
    /\ onSubmitCall.payload.symptoms_current = Str(<<"c", "o", "u", "g", "h">>)
    /\ onSubmitCall.payload.location = Str(<<"P", "u", "n", "e">>)

\* C26: a submit on the last step with voice input recorded, a generator
\* registered and blank symptoms awaits the summary generation and then
\* validates and submits with the symptoms the summary wrote into the form
\* data: when its wait ends and the form holds non-blank symptoms (and still
\* a name, on the last step), that submit calls onSubmit with them instead
\* of reporting 'Please describe your current symptoms'.
C26_VoiceSubmitUsesSummary ==
    [][(/\ \E i \in 1..MaxPending : WaitElapsed(i)
        /\ isLastStep(currentStep)
        /\ ~Blank(formData.full_name.v)
        /\ formData.symptoms_current.t = "string"
        /\ ~Blank(formData.symptoms_current.v))
       => /\ onSubmitCall' # None
          /\ IsPayloadFor(onSubmitCall'.payload, formData)
          /\ error' # Str(T_symptoms_required)]_vars

-----------------------------------------------------------------------------
(* The voice input of StepSymptoms (components/MultiStepOnboarding).        *)
(* A token and an API URL are present: without them processVoiceAudio       *)
(* returns at once and speakText is never called.                           *)

\* The MediaRecorders that may be recording together, and the Audio elements
\* of speakText that may be fetching or playing together.
MaxRecorders == 2
MaxSpeaks == 2

Audios == 1..MaxSpeaks

\* The Audio that a new call of speakText takes: audios are told apart by the
\* place they take among those that fetch or play.
FirstFree(s) == CHOOSE a \in Audios : s[a] = "free" /\ \A b \in Audios : s[b] = "free" => a <= b

\* audioRef.current.pause(); audioRef.current = null
Paused(s) == IF audioRef = 0 THEN s ELSE [s EXCEPT ![audioRef] = "free"]

\* The playbacks that are heard: the Audio elements playing, and the utterance
\* of the Web Speech fallback while it is spoken.
Playing ==
    Cardinality({a \in Audios : speaks[a] = "playing"})
        + (IF utterance = "speaking" THEN 1 ELSE 0)

InitVoice ==
    /\ pc = "voice"
    /\ recorders = 0
    /\ isProcessingRef = FALSE /\ isProcessing = FALSE
    /\ isPlayingRef = FALSE /\ isSpeaking = FALSE
    /\ audioRef = 0
    /\ speaks = [a \in Audios |-> "free"]
    /\ utterance = "none" /\ onvoiceschanged = FALSE
    /\ voices \in BOOLEAN
    /\ pipelines = <<>>
    /\ processCall = "none"
    /\ voiceSummary = FALSE
    /\ NoEngine /\ NoForm /\ NoMatcher /\ NoChat

\* speak(), inside speakWithWebSpeech. Its isSpeaking is the one of the
\* render in which the recording started, where the button was enabled: false,
\* so that the guard of its first line never returns.
speak ==
    /\ isPlayingRef' = TRUE
    /\ utterance' = "queued"

\* speakWithWebSpeech(text), called by speakText right after it cleared
\* isPlayingRef: the guard passes, the synthesis is cancelled, and the text is
\* spoken now or when the voices are loaded.
speakWithWebSpeech ==
    IF voices
    THEN speak /\ UNCHANGED onvoiceschanged
    ELSE /\ isPlayingRef' = FALSE
         /\ utterance' = "none"
         /\ onvoiceschanged' = TRUE

\* speakText(text, language), up to its fetch.
speakText ==
    IF isPlayingRef
    THEN UNCHANGED <<isPlayingRef, audioRef, speaks, isSpeaking, utterance, onvoiceschanged>>
    ELSE /\ \E a \in Audios : Paused(speaks)[a] = "free"
         /\ isPlayingRef' = TRUE
         /\ audioRef' = 0
         /\ isSpeaking' = TRUE
         /\ speaks' = [Paused(speaks) EXCEPT ![FirstFree(Paused(speaks))] = "fetch"]
         /\ UNCHANGED <<utterance, onvoiceschanged>>

\* The finally block of processVoiceAudio.
Finally(i) ==
    /\ pipelines' = Remove(pipelines, i)
    /\ isProcessing' = FALSE
    /\ isProcessingRef' = FALSE

\* processVoiceAudio without the guard on isProcessingRef.
processVoiceAudio_NoGuard ==
    /\ processCall' = "ran"
    /\ isProcessingRef' = TRUE
    /\ isProcessing' = TRUE
    /\ isPlayingRef' = FALSE
    /\ pipelines' = Append(pipelines, "transcribe")


\* processVoiceAudio(blob), up to its first await.
processVoiceAudio ==
    IF isProcessingRef
    THEN /\ processCall' = "returned"
         /\ UNCHANGED <<isProcessingRef, isProcessing, isPlayingRef, pipelines>>
    ELSE /\ processCall' = "ran"
         /\ isProcessingRef' = TRUE
         /\ isProcessing' = TRUE
         /\ isPlayingRef' = FALSE
         /\ pipelines' = Append(pipelines, "transcribe")

\* startVoiceRecording, from the button: it is disabled while isProcessing or
\* isSpeaking, and not rendered once there is a summary.
StartRecording ==
    /\ pc = "voice"
    /\ ~isProcessing /\ ~isSpeaking /\ ~voiceSummary
    /\ recorders < MaxRecorders
    /\ recorders' = recorders + 1
    /\ processCall' = "none"
    /\ UNCHANGED <<pc, engine, form, matcher, chat, isProcessingRef, isProcessing,
                   isPlayingRef, isSpeaking, audioRef, speaks, utterance,
                   onvoiceschanged, voices, pipelines, voiceSummary>>

\* mediaRecorder.onstop: a recorder stops, by stopVoiceRecording or because
\* its stream ended.
RecorderStopped ==
    /\ pc = "voice"
    /\ recorders > 0
    /\ recorders' = recorders - 1
    /\ processVoiceAudio
    /\ UNCHANGED <<pc, engine, form, matcher, chat, isSpeaking, audioRef, speaks,
                   utterance, onvoiceschanged, voices, voiceSummary>>

\* The transcription request of run i answers: with a transcript, or with a
\* failure that is thrown.
Transcribed(i, ok) ==
    /\ pc = "voice"
    /\ i \in 1..Len(pipelines) /\ pipelines[i] = "transcribe"
    /\ IF ok
       THEN /\ pipelines' = [pipelines EXCEPT ![i] = "conversation"]
            /\ UNCHANGED <<isProcessing, isProcessingRef>>
       ELSE Finally(i)
    /\ processCall' = "none"
    /\ UNCHANGED <<pc, engine, form, matcher, chat, recorders, isPlayingRef, isSpeaking,
                   audioRef, speaks, utterance, onvoiceschanged, voices, voiceSummary>>

\* The conversation request of run i answers: with a failure that is thrown,
\* or with a response that is spoken, complete or not.
Conversed(i, ok, is_complete) ==
    /\ pc = "voice"
    /\ i \in 1..Len(pipelines) /\ pipelines[i] = "conversation"
    /\ IF ok
       THEN /\ speakText
            /\ IF is_complete
               THEN /\ pipelines' = [pipelines EXCEPT ![i] = "summary"]
                    /\ UNCHANGED <<isProcessing, isProcessingRef>>
               ELSE Finally(i)
       ELSE /\ Finally(i)
            /\ UNCHANGED <<isPlayingRef, audioRef, speaks, isSpeaking, utterance,
                           onvoiceschanged>>
    /\ processCall' = "none"
    /\ UNCHANGED <<pc, engine, form, matcher, chat, recorders, voices, voiceSummary>>

\* generateVoiceSummary of run i returns, with a summary or without.
Summarized(i, success) ==
    /\ pc = "voice"
    /\ i \in 1..Len(pipelines) /\ pipelines[i] = "summary"
    /\ Finally(i)
    /\ voiceSummary' = (voiceSummary \/ success)
    /\ processCall' = "none"
    /\ UNCHANGED <<pc, engine, form, matcher, chat, recorders, isPlayingRef, isSpeaking,
                   audioRef, speaks, utterance, onvoiceschanged, voices>>

\* The TTS request of Audio a answers: with audio, which plays, or without
\* (or the request fails), and the Web Speech fallback takes over.
TTSAnswered(a, ok) ==
    /\ pc = "voice"
    /\ a \in Audios /\ speaks[a] = "fetch"
    /\ IF ok
       THEN /\ speaks' = [speaks EXCEPT ![a] = "playing"]
            /\ audioRef' = a
            /\ UNCHANGED <<isSpeaking, isPlayingRef, utterance, onvoiceschanged>>
       ELSE /\ speaks' = [speaks EXCEPT ![a] = "free"]
            /\ isSpeaking' = FALSE
            /\ speakWithWebSpeech
            /\ UNCHANGED audioRef
    /\ processCall' = "none"
    /\ UNCHANGED <<pc, engine, form, matcher, chat, recorders, isProcessingRef,
                   isProcessing, voices, pipelines, voiceSummary>>

\* audio.onended, audio.onerror
AudioEnded(a) ==
    /\ pc = "voice"
    /\ a \in Audios /\ speaks[a] = "playing"
    /\ speaks' = [speaks EXCEPT ![a] = "free"]
    /\ isSpeaking' = FALSE
    /\ audioRef' = 0
    /\ isPlayingRef' = FALSE
    /\ processCall' = "none"
    /\ UNCHANGED <<pc, engine, form, matcher, chat, recorders, isProcessingRef,
                   isProcessing, utterance, onvoiceschanged, voices, pipelines,
                   voiceSummary>>

\* speechSynthesis.onvoiceschanged: the voices are loaded, and the handler that
\* speakWithWebSpeech left, if any, speaks.
VoicesChanged ==
    /\ pc = "voice"
    /\ ~voices
    /\ voices' = TRUE
    /\ IF onvoiceschanged THEN speak ELSE UNCHANGED <<isPlayingRef, utterance>>
    /\ processCall' = "none"
    /\ UNCHANGED <<pc, engine, form, matcher, chat, recorders, isProcessingRef,
                   isProcessing, isSpeaking, audioRef, speaks, onvoiceschanged,
                   pipelines, voiceSummary>>

\* utterance.onstart
UtteranceStarted ==
    /\ pc = "voice"
    /\ utterance = "queued"
    /\ utterance' = "speaking"
    /\ isSpeaking' = TRUE
    /\ processCall' = "none"
    /\ UNCHANGED <<pc, engine, form, matcher, chat, recorders, isProcessingRef,
                   isProcessing, isPlayingRef, audioRef, speaks, onvoiceschanged,
                   voices, pipelines, voiceSummary>>

\* utterance.onend, utterance.onerror
UtteranceEnded ==
    /\ pc = "voice"
    /\ utterance = "speaking"
    /\ utterance' = "none"
    /\ isSpeaking' = FALSE
    /\ isPlayingRef' = FALSE
    /\ processCall' = "none"
    /\ UNCHANGED <<pc, engine, form, matcher, chat, recorders, isProcessingRef,
                   isProcessing, audioRef, speaks, onvoiceschanged, voices,
                   pipelines, voiceSummary>>

NextVoice ==
    \/ StartRecording
    \/ RecorderStopped
    \/ \E i \in 1..Len(pipelines), ok \in BOOLEAN : Transcribed(i, ok)
    \/ \E i \in 1..Len(pipelines), ok \in BOOLEAN, is_complete \in BOOLEAN : Conversed(i, ok, is_complete)
    \/ \E i \in 1..Len(pipelines), success \in BOOLEAN : Summarized(i, success)
    \/ \E a \in Audios, ok \in BOOLEAN : TTSAnswered(a, ok)
    \/ \E a \in Audios : AudioEnded(a)
    \/ VoicesChanged
    \/ UtteranceStarted
    \/ UtteranceEnded

SpecVoice == InitVoice /\ [][NextVoice]_vars

\* C27: at most one playback started by speakText is heard at any time.
C27_OnePlaybackAtATime == pc = "voice" => Playing <= 1

\* C28: at most one processVoiceAudio run is in progress, and
\* isProcessingRef.current is set exactly while one is, so that it is cleared
\* when a run ends, with or without an error; a call made while a run is in
\* progress starts nothing and leaves every request and flag as it was.
C28_OnePipelineAtATime ==
    /\ [](pc = "voice" =>
            /\ Len(pipelines) <= 1
            /\ isProcessingRef = (pipelines # <<>>))
    /\ [][(pc = "voice" /\ recorders' < recorders /\ pipelines # <<>>) =>
            /\ processCall' = "returned"
            /\ UNCHANGED <<pipelines, isProcessingRef, isProcessing, isPlayingRef,
                           isSpeaking, audioRef, speaks, utterance>>]_vars
    /\ [][(pc = "voice" /\ recorders' < recorders /\ pipelines = <<>>) =>
            /\ processCall' = "ran"
            /\ pipelines' = <<"transcribe">>]_vars

\* A call of processVoiceAudio has returned at its guard while a run waits for
\* its conversation request.
C28_Witness ==
    /\ pc = "voice"
    /\ processCall = "returned"
    /\ pipelines = <<"conversation">>

-----------------------------------------------------------------------------
(* ChatPanel (App).                                                         *)
(* A token and an API URL are present: without them sendMessage,            *)
(* createSession, loadSession and fetchSessions return at once.             *)

\* The calls of sendMessage that get past the creation of a session, and the
\* sessions the server holds.
MaxSends == 2
MaxSessions == 2

\* The texts typed into the input.
InputTexts == {<<" ">>, <<" ", "h", "i">>}

\* The temporary user message, the two messages of the server for the k-th
\* exchange of a session, and the error message. Calls of sendMessage are
\* taken to be more than a millisecond apart, so that tempId and tempId + 1
\* of one call differ from those of another.
TempMessage(tempId, content, sessionId) ==
    [id |-> <<"tempId", tempId>>, role |-> "user", content |-> content, session |-> sessionId]
ErrorMessage(tempId, content, sessionId) ==
    [id |-> <<"tempId + 1", tempId>>, role |-> "ai", content |-> content, session |-> sessionId]
ServerMessage(sessionId, k, role) ==
    [id |-> <<"server", sessionId, k, role>>, role |-> role, content |-> <<>>, session |-> sessionId]

\* The messages the server returns for a session that holds n exchanges.
RECURSIVE MessagesOf(_, _)
MessagesOf(sessionId, n) ==
    IF n = 0 THEN <<>>
    ELSE MessagesOf(sessionId, n - 1)
            \o <<ServerMessage(sessionId, n, "user"), ServerMessage(sessionId, n, "ai")>>

\* prev.filter(m => m.id !== tempId)
WithoutTemp(prev, tempId) == SelectSeq(prev, LAMBDA m : m.id # <<"tempId", tempId>>)

InitChat ==
    /\ pc = "chat"
    /\ messages = <<>>
    /\ sessions = {}
    /\ currentSessionId = 0
    /\ inputValue = <<>>
    /\ loading = FALSE
    /\ sends = <<>>
    /\ loads = {}
    /\ fetching = TRUE
    /\ now = 0
    /\ stored \in {<<>>, <<1>>}
    /\ NoEngine /\ NoForm /\ NoMatcher /\ NoVoice

\* The input's onChange; the input is disabled while loading.
ChangeInput(value) ==
    /\ pc = "chat"
    /\ ~loading
    /\ inputValue' = value
    /\ UNCHANGED <<pc, engine, form, matcher, voice, messages, sessions, currentSessionId,
                   loading, sends, loads, fetching, now, stored>>

\* sendMessage from `const userMessage` to its fetch, for the session
\* sessionId and the input the call was made with; runs are the other runs.
Proceed(sessionId, value, runs) ==
    /\ now < MaxSends
    /\ now' = now + 1
    /\ inputValue' = <<>>
    /\ loading' = TRUE
    /\ messages' = Append(messages, TempMessage(now, Trim(value), sessionId))
    /\ sends' = Append(runs, [at |-> "send", sessionId |-> sessionId, tempId |-> now])

\* sendMessage(), up to its first await.
sendMessage ==
    IF Trim(inputValue) = <<>> \/ loading
    THEN UNCHANGED <<messages, currentSessionId, inputValue, loading, sends, now>>
    ELSE IF currentSessionId = 0
         THEN /\ Len(sends) < MaxSends
              /\ sends' = Append(sends, [at |-> "createSession", inputValue |-> inputValue])
              /\ UNCHANGED <<messages, currentSessionId, inputValue, loading, now>>
         ELSE /\ Proceed(currentSessionId, inputValue, sends)
              /\ UNCHANGED currentSessionId

\* The send button, or Enter in the input.
SendMessage ==
    /\ pc = "chat"
    /\ sendMessage
    /\ UNCHANGED <<pc, engine, form, matcher, voice, sessions, loads, fetching, stored>>

\* The request of createSession of run i answers, and sendMessage goes on: with
\* the new session, or not at all.
SessionCreated(i, ok) ==
    /\ pc = "chat"
    /\ i \in 1..Len(sends) /\ sends[i].at = "createSession"
    /\ IF ok
       THEN /\ Len(stored) < MaxSessions
            /\ stored' = Append(stored, 0)
            /\ currentSessionId' = Len(stored) + 1
            /\ fetching' = TRUE
            /\ Proceed(Len(stored) + 1, sends[i].inputValue, Remove(sends, i))
       ELSE /\ sends' = Remove(sends, i)
            /\ UNCHANGED <<stored, currentSessionId, fetching, now, inputValue, loading,
                           messages>>
    /\ UNCHANGED <<pc, engine, form, matcher, voice, sessions, loads>>

\* The send request of run i answers: with the two messages, with an error
\* response, or not at all.
SendAnswered(i, outcome) ==
    /\ pc = "chat"
    /\ i \in 1..Len(sends) /\ sends[i].at = "send"
    /\ LET sessionId == sends[i].sessionId
           tempId == sends[i].tempId
       IN  CASE outcome = "ok" ->
                  /\ stored' = [stored EXCEPT ![sessionId] = @ + 1]
                  /\ messages' = WithoutTemp(messages, tempId)
                        \o <<ServerMessage(sessionId, stored[sessionId] + 1, "user"),
                             ServerMessage(sessionId, stored[sessionId] + 1, "ai")>>
                  /\ fetching' = TRUE
              [] outcome = "not ok" ->
                  /\ messages' = Append(messages,
                        ErrorMessage(tempId, <<"Error: Failed to get response">>, sessionId))
                  /\ UNCHANGED <<stored, fetching>>
              [] outcome = "thrown" ->
                  /\ messages' = Append(messages,
                        ErrorMessage(tempId, <<"Error: Failed to connect to server">>, sessionId))
                  /\ UNCHANGED <<stored, fetching>>
    /\ loading' = FALSE
    /\ sends' = Remove(sends, i)
    /\ UNCHANGED <<pc, engine, form, matcher, voice, sessions, currentSessionId, inputValue,
                   loads, now>>

\* fetchSessions: its request answers.
SessionsFetched(ok) ==
    /\ pc = "chat"
    /\ fetching
    /\ fetching' = FALSE
    /\ sessions' = IF ok THEN 1..Len(stored) ELSE sessions
    /\ UNCHANGED <<pc, engine, form, matcher, voice, messages, currentSessionId, inputValue,
                   loading, sends, loads, now, stored>>

\* loadSession(sessionId), from the history, up to its fetch.
loadSession(sessionId) ==
    /\ pc = "chat"
    /\ sessionId \in sessions
    /\ loads' = loads \cup {sessionId}
    /\ UNCHANGED <<pc, engine, form, matcher, voice, messages, sessions, currentSessionId,
                   inputValue, loading, sends, fetching, now, stored>>

\* The request of loadSession(sessionId) answers.
SessionLoaded(sessionId, ok) ==
    /\ pc = "chat"
    /\ sessionId \in loads
    /\ loads' = loads \ {sessionId}
    /\ IF ok
       THEN /\ messages' = MessagesOf(sessionId, stored[sessionId])
            /\ currentSessionId' = sessionId
       ELSE UNCHANGED <<messages, currentSessionId>>
    /\ UNCHANGED <<pc, engine, form, matcher, voice, sessions, inputValue, loading, sends,
                   fetching, now, stored>>

\* startNewChat()
startNewChat ==
    /\ pc = "chat"
    /\ currentSessionId' = 0
    /\ messages' = <<>>
    /\ UNCHANGED <<pc, engine, form, matcher, voice, sessions, inputValue, loading, sends,
                   loads, fetching, now, stored>>

NextChat ==
    \/ \E value \in InputTexts : ChangeInput(value)
    \/ SendMessage
    \/ \E i \in 1..Len(sends), ok \in BOOLEAN : SessionCreated(i, ok)
    \/ \E i \in 1..Len(sends), outcome \in {"ok", "not ok", "thrown"} : SendAnswered(i, outcome)
    \/ \E ok \in BOOLEAN : SessionsFetched(ok)
    \/ \E sessionId \in 1..Len(stored) : loadSession(sessionId)
    \/ \E sessionId \in 1..Len(stored), ok \in BOOLEAN : SessionLoaded(sessionId, ok)
    \/ startNewChat

SpecChat == InitChat /\ [][NextChat]_vars

\* C29: at most one sendMessage is in progress, from its guard to its end,
\* the creation of the session included.
C29_OneSendInProgress == pc = "chat" => Len(sends) <= 1

\* C30: when the request of a send answers while another session than the one
\* it was sent in is current (or none), no message is added to the list shown.
C30_ReplyOnlyInItsSession ==
    [][\A i \in 1..Len(sends) :
          (/\ pc = "chat"
           /\ sends[i].at = "send"
           /\ sends' = Remove(sends, i)
           /\ sends[i].sessionId # currentSessionId)
          => \A k \in 1..Len(messages') :
                \E j \in 1..Len(messages) : messages'[k] = messages[j]]_vars

=============================================================================
